---------------------------- MODULE Spec2Model ----------------------------
(***************************************************************************)
(* Scratch Link fake hub: the session hub (scratchlink_fakehub/hub.py),    *)
(* the WeDo peripheral (wedo.py) and the micro:bit peripheral              *)
(* (scratchlink_fakehub/microbit.py) as one state machine.                 *)
(*                                                                         *)
(* Every coroutine is cut at its await points: one step of a handler or of *)
(* a push loop runs the code from the point where it resumed up to and     *)
(* including the next ws.send (whose frame is written before the coroutine *)
(* suspends), or up to its return.  asyncio runs one such step at a time.  *)
(***************************************************************************)
EXTENDS Integers, Sequences, FiniteSets, TLC

\* ------------------------------------------------------------------ bounds
MaxConn == 2
MaxMsgs == 2
MaxLoopSends == 2
MaxCalls == 2
MaxRestartMsgs == 3

\* ---------------------------------------------------------------- helpers
Min(a, b) == IF a < b THEN a ELSE b
Max(a, b) == IF a > b THEN a ELSE b
Abs(a) == IF a < 0 THEN 0 - a ELSE a
Last(s) == s[Len(s)]

\* Python's None for a handle (self.ws, self.push_task).
None == 0

\* ------------------------------------------------------------------ base64
\* A base64 text is a sequence of sextets 0..63; Pad stands for "=".
Pad == 64

RECURSIVE b64(_)
b64(payload) ==
    IF Len(payload) = 0 THEN <<>>
    ELSE IF Len(payload) = 1 THEN
        << payload[1] \div 4, (payload[1] % 4) * 16, Pad, Pad >>
    ELSE IF Len(payload) = 2 THEN
        << payload[1] \div 4,
           (payload[1] % 4) * 16 + payload[2] \div 16,
           (payload[2] % 16) * 4, Pad >>
    ELSE
        << payload[1] \div 4,
           (payload[1] % 4) * 16 + payload[2] \div 16,
           (payload[2] % 16) * 4 + payload[3] \div 64,
           payload[3] % 64 >> \o b64(SubSeq(payload, 4, Len(payload)))

\* base64.b64decode: ok = FALSE stands for binascii.Error (a text whose
\* length is not a multiple of four, or with padding in the wrong place).
RECURSIVE b64decode(_)
b64decode(s) ==
    IF Len(s) = 0 THEN [ok |-> TRUE, bytes |-> <<>>]
    ELSE IF Len(s) < 4 \/ s[1] = Pad \/ s[2] = Pad THEN [ok |-> FALSE, bytes |-> <<>>]
    ELSE IF s[3] = Pad THEN
        IF Len(s) = 4 /\ s[4] = Pad
        THEN [ok |-> TRUE, bytes |-> << s[1] * 4 + s[2] \div 16 >>]
        ELSE [ok |-> FALSE, bytes |-> <<>>]
    ELSE IF s[4] = Pad THEN
        IF Len(s) = 4
        THEN [ok |-> TRUE,
              bytes |-> << s[1] * 4 + s[2] \div 16,
                           (s[2] % 16) * 16 + s[3] \div 4 >>]
        ELSE [ok |-> FALSE, bytes |-> <<>>]
    ELSE
        LET rest == b64decode(SubSeq(s, 5, Len(s)))
        IN  [ok |-> rest.ok,
             bytes |-> IF rest.ok
                       THEN << s[1] * 4 + s[2] \div 16,
                               (s[2] % 16) * 16 + s[3] \div 4,
                               (s[3] % 4) * 64 + s[4] >> \o rest.bytes
                       ELSE <<>>]

\* tests/conftest.py: the decoder the tests read sent frames with.
b64_to_bytes(s) == IF Len(s) = 0 THEN <<>> ELSE b64decode(s).bytes


\* ------------------------------------------------------------ wedo.py: UUID
\* Identifiers are kept as short strings; Null is JSON null or an absent key.
Null == "null"
PORT_SERVICE == "00001523"
PORT_CHAR == "00001527"
PORT_NOTIFY_CHAR == "00001528"
SENSOR_SERVICE == "00004f0e"
SENSOR_CHAR == "00001560"
\* microbit.py: UUID.SVC_ID is the integer 61445, not a string.
SVC_ID == "int:61445"
CHAR_RX == "5261da01"
CHAR_TX == "5261da02"
ACCEL_SERVICE == "E95D0753"
ACCEL_DATA_CHAR == "E95DCA4B"

\* A Python str (subscriptable with [-4:]); an int or None is not.
IsStr(x) == x \notin {Null, SVC_ID}
\* Python truthiness of a params value: None is falsy, the identifiers are not.
Truthy(x) == x # Null

\* wedo.py: WedoSensors and DEVICE_TYPES
WedoSensors == {"motor", "tilt", "distance"}
DEVICE_TYPES == [k \in WedoSensors |->
                    CASE k = "motor" -> 1 [] k = "tilt" -> 34 [] k = "distance" -> 35]

\* The devices dict a WeDoDevice is constructed with, in insertion order:
\* the scenario of the specification and of test_encode_attach_and_find_port,
\* the three-port device of the tests, and a device without ports.
DeviceConfigs ==
    { << <<1, "motor">>, <<2, "tilt">> >>,
      << <<1, "motor">>, <<2, "tilt">>, <<3, "distance">> >>,
      << >> }

\* hub.py: the devices list ScratchLinkHub is constructed with (main.py).
hubDevices == << "wedo", "microbit" >>

\* --------------------------------------------------------- inbound frames
\* One inbound text frame.  json = FALSE is a frame json.loads rejects.
\* hasMessage = FALSE is a params object without the "message" key.
Req(method, svc, char, hasMessage, message, startN) ==
    [json |-> TRUE, method |-> method, serviceId |-> svc, characteristicId |-> char,
     hasMessage |-> hasMessage, message |-> message, startNotifications |-> startN]

Malformed == [Req("", Null, Null, FALSE, <<>>, FALSE) EXCEPT !.json = FALSE]

Pairs == { <<PORT_SERVICE, PORT_CHAR>>, <<SENSOR_SERVICE, SENSOR_CHAR>>,
           <<SVC_ID, CHAR_RX>>, <<Null, Null>> }

\* The last byte of a motor command: both signs, the sign boundary and the
\* extremes of the byte range.
PowerBytes == { 0, 1, 100, 127, 128, 129, 200, 255 }

\* Decoded write payloads the client sends: motor commands for a configured
\* port and for an unconfigured one (tests: [1, 0, 0, 0xFF], [9, 0, 0, 0x7F]),
\* short payloads, and a micro:bit display command.
MotorPayloads == { << port, 0, 0, b >> : port \in {1, 9}, b \in PowerBytes } \cup { <<1, 0, 7>> }
ShortPayloads == { << >>, <<1>>, <<1, 2>> }
WritePayloads == MotorPayloads \cup ShortPayloads \cup { <<129, 72, 105>> }

SubscriptionReqs ==
    { Req(m, p[1], p[2], FALSE, <<>>, FALSE) :
        m \in {"startNotifications", "stopNotifications"}, p \in Pairs }

PlainReqs ==
    { Req(m, Null, Null, FALSE, <<>>, FALSE) : m \in {"discover", "connect", "read", "getVersion"} }

ReadStartReqs ==
    { Req("read", p[1], p[2], FALSE, <<>>, TRUE) : p \in {<<SVC_ID, CHAR_RX>>} }

WriteReqs ==
    { Req("write", PORT_SERVICE, PORT_CHAR, TRUE, b64(d), FALSE) : d \in WritePayloads }
    \cup { Req("write", PORT_SERVICE, PORT_CHAR, FALSE, <<>>, FALSE),
           Req("write", PORT_SERVICE, PORT_CHAR, TRUE, <<1, 2, 3>>, FALSE),
           Req("write", SVC_ID, CHAR_TX, TRUE, b64(<<129, 72, 105>>), FALSE) }

\* The frames a client sends in Spec: every method, one motor command.
Requests ==
    SubscriptionReqs \cup PlainReqs \cup ReadStartReqs \cup {Malformed}
    \cup { Req("write", PORT_SERVICE, PORT_CHAR, TRUE, b64(<<1, 0, 0, 255>>), FALSE) }

\* ------------------------------------------------------------------- state
VARIABLES
    devices,    \* WeDoDevice.devices: sequence of <<port, kind>>
    wedo,       \* the WeDoDevice instance's fields
    microbit,   \* the MicrobitDevice instance's fields
    tasks,      \* every task asyncio.create_task has made, in creation order
    conn,       \* per connection: "none", "open" or "closed"
    session,    \* per connection: where its _handle_session coroutine is
    sent,       \* the frames written by ws.send, in order, each with its connection
    calls,      \* the application hooks invoked so far, in order
    reqs,       \* the inbound frames delivered so far, in order, each with its connection
    nreq,       \* inbound frames delivered so far (frame n carries id n)
    nloop,      \* frames sent by push loops so far
    hook_raises, \* whether the application's on_motor_power override raises
    api,        \* the sensor setters the application has called, in order
    encoded,    \* the codec calls the application has made, with their outcome
    entered,    \* the device.handle_rpc calls the hub has made, in order
    rpc_errors  \* the "RPC error" warnings of _handle_session, in order

vars == << devices, wedo, microbit, tasks, conn, session, sent, calls, reqs, nreq, nloop,
          hook_raises, api, encoded, entered, rpc_errors >>

Conns == 1 .. MaxConn

\* The mutable world a coroutine step reads and writes.
World == [wedo |-> wedo, microbit |-> microbit, tasks |-> tasks,
          sent |-> sent, calls |-> calls, nloop |-> nloop,
          entered |-> entered, rpc_errors |-> rpc_errors]

Pc(l, i) == [l |-> l, i |-> i]
NoReq == [Req("", Null, Null, FALSE, <<>>, FALSE) EXCEPT !.json = FALSE] @@ [id |-> 0]
Idle(st) == [st |-> st, req |-> NoReq, di |-> 0, pc |-> Pc("", 0)]

\* WeDoDevice.__init__ / DevicePeripheral.__init__
WeDoDevice_init(devs) ==
    [ notifications_ports |-> FALSE,
      notifications_sensor |-> FALSE,
      motor_power |-> [p \in {devs[i][1] : i \in {j \in 1 .. Len(devs) : devs[j][2] = "motor"}} |-> 100],
      tilt_x |-> 0, tilt_y |-> 200,
      ws |-> None,
      push_task |-> None,
      distance_value |-> 0 ]

\* MicrobitDevice.__init__
MicrobitDevice_init ==
    [ notifications_rx |-> FALSE, push_task |-> None, hb_t |-> 0, ws |-> None ]

\* The state after construction, whatever on_motor_power the application has
InitFields ==
    /\ devices \in DeviceConfigs
    /\ wedo = WeDoDevice_init(devices)
    /\ microbit = MicrobitDevice_init
    /\ tasks = << >>
    /\ conn = [c \in Conns |-> "none"]
    /\ session = [c \in Conns |-> Idle("none")]
    /\ sent = << >>
    /\ calls = << >>
    /\ reqs = << >>
    /\ nreq = 0
    /\ nloop = 0
    /\ entered = << >>
    /\ rpc_errors = << >>
    /\ api = << >>
    /\ encoded = << >>

\* The application keeps an on_motor_power that returns (wedo.py, main.py)
Init == InitFields /\ hook_raises = FALSE

\* The application may have overridden on_motor_power with one that raises
InitHook == InitFields /\ hook_raises \in BOOLEAN


\* -------------------------------------------------------- outbound frames
\* by: who called ws.send (device, request being handled or request whose
\* handler created the sending task, and whether a push loop sent it).
By(dev, id, loop) == [dev |-> dev, req |-> id, loop |-> loop]

\* {"jsonrpc": "2.0", "id": msg_id, "result": {}}
Result(id, by) ==
    [method |-> "", id |-> id, serviceId |-> Null, characteristicId |-> Null,
     message |-> << >>, name |-> "", by |-> by]

\* {"method": "didDiscoverPeripheral", "params": {"name": ..., ...}}
DidDiscover(name, by) ==
    [method |-> "didDiscoverPeripheral", id |-> 0, serviceId |-> Null,
     characteristicId |-> Null, message |-> << >>, name |-> name, by |-> by]

\* {"method": "characteristicDidChange", "params": {serviceId, characteristicId, message}}
DidChange(svc, char, message, by) ==
    [method |-> "characteristicDidChange", id |-> 0, serviceId |-> svc,
     characteristicId |-> char, message |-> message, name |-> "", by |-> by]

\* PeripheralInterface.__init__: self.name
DeviceName(dev) == IF dev = "wedo" THEN "Fake-Wedo" ELSE "Fake-Microbit"

\* ------------------------------------------------- one step of a coroutine
\* status: "await" (a frame was written and the coroutine suspended at pc),
\* "return" (the coroutine returned), "raise" (an exception left it).
Return(W) == [W |-> W, status |-> "return", pc |-> Pc("", 0)]
Raise(W) == [W |-> W, status |-> "raise", pc |-> Pc("", 0)]

\* await ws.send(frame): raises ConnectionClosed on a closed connection.
Send(W, c, frame, pc) ==
    IF conn[c] = "open"
    THEN [W |-> [W EXCEPT !.sent = Append(@, frame @@ [ws |-> c])],
          status |-> "await", pc |-> pc]
    ELSE Raise(W)

\* asyncio.create_task(self._push_loop()): the new task has not run yet.
NewTask(dev, id) == [dev |-> dev, st |-> "running", pc |-> Pc("top", 0), cap |-> << >>, req |-> id]

\* Mutant: the handle is dropped without cancelling the task
Cancel_skipped(tks, t) == tks

\* Task.cancel(): CancelledError is thrown into the task when it next runs;
\* a task that is already done is left as it is.
Cancel(tks, t) ==
    IF tks[t].st = "running" THEN [tks EXCEPT ![t].st = "cancelling"] ELSE tks

\* ------------------------------------------------------- wedo.py: codec
\* Mutant: the device-type code is written one byte early
encode_attach_shifted(port, device) ==
    b64(<< port, 1, DEVICE_TYPES[device], 0, 0, 1, 1, 16, 0, 0, 0, 16 >>)

\* WeDoDevice.encode_attach
encode_attach(port, device) ==
    b64(<< port, 1, 0, DEVICE_TYPES[device], 0, 1, 1, 16, 0, 0, 0, 16 >>)

\* WeDoDevice.encode_sensor (the device kinds of DEVICE_TYPES)
encode_sensor(w, port, device) ==
    IF device = "distance" THEN b64(<< 5, 1, Max(0, Min(w.distance_value, 255)) >>)
    ELSE IF device = "tilt" THEN b64(<< 5, port, w.tilt_x, w.tilt_y >>)
    ELSE b64(<< 5, port, IF port \in DOMAIN w.motor_power THEN w.motor_power[port] ELSE 100 >>)

\* -------------------------------------- PeripheralInterface (both copies)
\* Mutant: the notification is sent before the result
PeripheralInterface_discover_notify_first(dev, W, c, req, pc) ==
    IF pc.l = "entry"
    THEN Send(W, c, DidDiscover(DeviceName(dev), By(dev, req.id, FALSE)), Pc("discovered", 0))
    ELSE IF pc.l = "discovered"
    THEN Send(W, c, Result(req.id, By(dev, req.id, FALSE)), Pc("last", 0))
    ELSE Return(W)

\* PeripheralInterface.discover
PeripheralInterface_discover(dev, W, c, req, pc) ==
    IF pc.l = "entry"
    THEN Send(W, c, Result(req.id, By(dev, req.id, FALSE)), Pc("discovered", 0))
    ELSE IF pc.l = "discovered"
    THEN Send(W, c, DidDiscover(DeviceName(dev), By(dev, req.id, FALSE)), Pc("last", 0))
    ELSE Return(W)

\* PeripheralInterface.connect
PeripheralInterface_connect(dev, W, c, req, pc) ==
    IF pc.l = "entry"
    THEN Send(W, c, Result(req.id, By(dev, req.id, FALSE)), Pc("last", 0))
    ELSE Return(W)

\* Mutant: an unrecognized method is dropped without an answer
fallback_ack_silent(dev, W, c, req, pc) == Return(W)

\* PeripheralInterface.handle_rpc: the fallback ack of an unrecognized method
fallback_ack(dev, W, c, req, pc) ==
    IF pc.l = "entry"
    THEN Send(W, c, Result(req.id, By(dev, req.id, FALSE)), Pc("last", 0))
    ELSE Return(W)

\* ------------------------------------------------------ wedo.py: WeDoDevice
\* Mutant: the ports-channel guard is missing
ports_inactive_unguarded(w) == TRUE

\* WeDoDevice.start_notifications: "if not self.notifications_ports"
ports_inactive(w) == ~w.notifications_ports

\* WeDoDevice.start_notifications: "if not self.notifications_sensor"
sensor_inactive(w) == ~w.notifications_sensor

\* WeDoDevice.start_notifications
WeDoDevice_start_notifications(W, c, req, pc) ==
    LET svc == req.serviceId
        char == req.characteristicId
        by == By("wedo", req.id, FALSE)
        attach(i) == DidChange(PORT_SERVICE, PORT_CHAR,
                               encode_attach(devices[i][1], devices[i][2]), by)
        nextAttach(i) == IF i < Len(devices) THEN Pc("attach", i + 1) ELSE Pc("last", 0)
    IN
    IF pc.l = "entry" THEN Send(W, c, Result(req.id, by), Pc("acked", 0))
    ELSE IF pc.l = "acked" THEN
        \* the f-string of logging.debug subscripts svc and char
        IF ~IsStr(svc) \/ ~IsStr(char) THEN Raise(W)
        ELSE IF svc = PORT_SERVICE /\ char = PORT_CHAR THEN
            IF ports_inactive(W.wedo) THEN
                LET W1 == [W EXCEPT !.wedo.notifications_ports = TRUE]
                IN  IF Len(devices) = 0 THEN Return(W1)
                    ELSE Send(W1, c, attach(1), nextAttach(1))
            ELSE Return(W)
        ELSE IF svc = SENSOR_SERVICE /\ char = SENSOR_CHAR THEN
            IF sensor_inactive(W.wedo) THEN
                LET W1 == [W EXCEPT !.wedo.notifications_sensor = TRUE]
                IN  IF W1.wedo.push_task = None
                    THEN Return([W1 EXCEPT !.tasks = Append(@, NewTask("wedo", req.id)),
                                           !.wedo.push_task = Len(W1.tasks) + 1])
                    ELSE Return(W1)
            ELSE Return(W)
        ELSE Return(W)
    ELSE IF pc.l = "attach" THEN Send(W, c, attach(pc.i), nextAttach(pc.i))
    ELSE Return(W)

\* Mutant: push_task.cancel() is called without testing the handle, which
\* raises AttributeError when there is no task
WeDoDevice_stop_notifications_unchecked(W, c, req, pc) ==
    LET svc == req.serviceId
        char == req.characteristicId
    IN
    IF pc.l = "entry"
    THEN Send(W, c, Result(req.id, By("wedo", req.id, FALSE)), Pc("acked", 0))
    ELSE IF svc = SENSOR_SERVICE /\ char = SENSOR_CHAR
    THEN IF W.wedo.push_task = None
         THEN Raise([W EXCEPT !.wedo.notifications_sensor = FALSE])
         ELSE Return([W EXCEPT !.wedo.notifications_sensor = FALSE,
                               !.tasks = Cancel(@, W.wedo.push_task),
                               !.wedo.push_task = None])
    ELSE IF svc = PORT_SERVICE /\ char = PORT_CHAR
    THEN Return([W EXCEPT !.wedo.notifications_ports = FALSE])
    ELSE Return(W)

\* WeDoDevice.stop_notifications
WeDoDevice_stop_notifications(W, c, req, pc) ==
    LET svc == req.serviceId
        char == req.characteristicId
    IN
    IF pc.l = "entry"
    THEN Send(W, c, Result(req.id, By("wedo", req.id, FALSE)), Pc("acked", 0))
    ELSE
        LET W1 == IF svc = SENSOR_SERVICE /\ char = SENSOR_CHAR
                  THEN [W EXCEPT !.wedo.notifications_sensor = FALSE,
                                 !.tasks = IF W.wedo.push_task # None
                                           THEN Cancel(@, W.wedo.push_task) ELSE @,
                                 !.wedo.push_task = None]
                  ELSE W
            W2 == IF svc = PORT_SERVICE /\ char = PORT_CHAR
                  THEN [W1 EXCEPT !.wedo.notifications_ports = FALSE]
                  ELSE W1
        IN  Return(W2)

\* WeDoDevice.on_motor_power, as the hook invocation the application sees
on_motor_power(W, req, port, power, direction) ==
    [W EXCEPT !.calls = Append(@, [hook |-> "on_motor_power",
                                   args |-> << port, power, direction >>,
                                   req |-> req.id, at |-> Len(W.sent)])]

\* Mutant: the byte is read as unsigned
signed_power_unsigned(pwr) == pwr

\* WeDoDevice.write: "power = pwr - 256 if pwr >= 128 else pwr"
signed_power(pwr) == IF pwr >= 128 THEN pwr - 256 ELSE pwr

\* Mutant: a two-byte payload is taken for a motor command
is_motor_command_two_bytes(data) == Len(data) >= 2

\* WeDoDevice.write: "if len(data) >= 3"
is_motor_command(data) == Len(data) >= 3

\* Mutant: only a port that already has an entry is recorded
record_motor_power_known_only(motor_power, port, stored) ==
    IF port \in DOMAIN motor_power
    THEN [motor_power EXCEPT ![port] = stored]
    ELSE motor_power

\* WeDoDevice.write: "self.motor_power[port] = ..." (a dict store: the key
\* is created when absent)
record_motor_power(motor_power, port, stored) ==
    [p \in (DOMAIN motor_power) \cup {port} |-> IF p = port THEN stored ELSE motor_power[p]]

\* WeDoDevice.write
WeDoDevice_write(W, c, req, pc) ==
    IF pc.l = "entry" THEN
        LET dec == b64decode(IF req.hasMessage THEN req.message ELSE << >>)
            data == dec.bytes
        IN  IF ~dec.ok THEN Raise(W)
            ELSE
                LET W1 == IF is_motor_command(data)
                          THEN LET port == data[1]
                                   pwr == Last(data)
                                   power == signed_power(pwr)
                                   direction == IF power >= 0 THEN 1 ELSE -1
                                   stored == Max(0, Min(127, Abs(power)))
                                   Wm == [W EXCEPT !.wedo.motor_power =
                                             record_motor_power(@, port, stored)]
                               IN  on_motor_power(Wm, req, port, stored, direction)
                          ELSE W
                IN  IF is_motor_command(data) /\ hook_raises
                    THEN \* "await self.on_motor_power(...)" is not inside a try
                         Raise(W1)
                    ELSE Send(W1, c, Result(req.id, By("wedo", req.id, FALSE)), Pc("last", 0))
    ELSE Return(W)

\* WeDoDevice.handle_rpc: register_ws, then PeripheralInterface.handle_rpc
\* of wedo.py (which has no branch for "read").
WeDoDevice_handle_rpc(W, c, req, pc) ==
    LET W1 == IF pc.l = "entry" THEN [W EXCEPT !.wedo.ws = c] ELSE W
        method == req.method
    IN  IF method = "discover" THEN PeripheralInterface_discover("wedo", W1, c, req, pc)
        ELSE IF method = "connect" THEN PeripheralInterface_connect("wedo", W1, c, req, pc)
        ELSE IF method = "startNotifications" THEN WeDoDevice_start_notifications(W1, c, req, pc)
        ELSE IF method = "stopNotifications" THEN WeDoDevice_stop_notifications(W1, c, req, pc)
        ELSE IF method = "write" THEN WeDoDevice_write(W1, c, req, pc)
        ELSE fallback_ack("wedo", W1, c, req, pc)


\* Mutant: the loop has no except clause for a closed connection
push_loop_send_failed_uncaught(W, t) == [W EXCEPT !.tasks[t].st = "failed"]

\* WeDoDevice._push_loop: "except (ConnectionClosedError, ConnectionClosedOK):
\* pass" -- the coroutine returns normally
push_loop_send_failed(W, t) == [W EXCEPT !.tasks[t].st = "finished"]

\* WeDoDevice._push_loop: one step of task t
WeDoDevice_push_loop(W, t) ==
    LET tk == W.tasks[t]
        w == W.wedo
        by == By("wedo", tk.req, TRUE)
        finished == [W EXCEPT !.tasks[t].st = "finished"]
        \* await self.ws.send(...); ConnectionClosed is caught and ends the loop
        LoopSend(message, pc, cap) ==
            IF w.ws = None THEN [W EXCEPT !.tasks[t].st = "failed"]
            ELSE IF conn[w.ws] = "open"
            THEN [W EXCEPT !.sent = Append(@, DidChange(PORT_SERVICE, PORT_CHAR, message, by)
                                                @@ [ws |-> w.ws]),
                           !.nloop = @ + 1,
                           !.tasks[t].pc = pc,
                           !.tasks[t].cap = cap]
            ELSE push_loop_send_failed(W, t)
        after(i) == IF i < Len(devices) THEN Pc("iter", i + 1) ELSE Pc("top", 0)
        iter(i) ==
            LET port == devices[i][1]
                device == devices[i][2]
                payload == encode_sensor(w, port, device)
            IN  IF device = "distance"
                THEN LoopSend(b64(<< 5, 1, Max(0, Min(0, 255)) >>), Pc("mid", i), payload)
                ELSE IF device = "tilt"
                THEN LoopSend(b64(<< 5, port, 0, 0 >>), Pc("mid", i), payload)
                ELSE LoopSend(payload, after(i), << >>)
    IN  IF tk.pc.l = "top" THEN
            \* first run, or back from asyncio.sleep(self.sensor_interval)
            IF w.notifications_sensor /\ w.ws # None
            THEN IF Len(devices) = 0 THEN W ELSE iter(1)
            ELSE finished
        ELSE IF tk.pc.l = "iter" THEN iter(tk.pc.i)
        ELSE \* back from asyncio.sleep(0.05): send the payload encoded before it
             LoopSend(tk.cap, after(tk.pc.i), << >>)

\* ------------------------------- scratchlink_fakehub/microbit.py: MicrobitDevice
HEARTBEAT_HZ == 1

\* MicrobitDevice._heartbeat_payload
RECURSIVE heartbeat_bytes(_, _)
heartbeat_bytes(t, i) ==
    IF i = 8 THEN << >> ELSE << (t + i * 11) % 256 >> \o heartbeat_bytes(t, i + 1)

heartbeat_payload(t) == heartbeat_bytes(t, 0)

\* Mutant: no check for a missing id; an absent characteristic is taken for RX
MicrobitDevice_start_notifications_defaulting(W, c, req, pc) ==
    LET svc == req.serviceId
        char == IF req.characteristicId = Null THEN CHAR_RX ELSE req.characteristicId
    IN
    IF pc.l = "entry"
    THEN Send(W, c, Result(req.id, By("microbit", req.id, FALSE)), Pc("acked", 0))
    ELSE IF svc = SVC_ID /\ char = CHAR_RX /\ ~W.microbit.notifications_rx
    THEN LET W1 == [W EXCEPT !.microbit.notifications_rx = TRUE]
         IN  IF W1.microbit.push_task = None
             THEN Return([W1 EXCEPT !.tasks = Append(@, NewTask("microbit", req.id)),
                                    !.microbit.push_task = Len(W1.tasks) + 1])
             ELSE Return(W1)
    ELSE Return(W)

\* MicrobitDevice.start_notifications
MicrobitDevice_start_notifications(W, c, req, pc) ==
    LET svc == req.serviceId
        char == req.characteristicId
    IN
    IF pc.l = "entry"
    THEN Send(W, c, Result(req.id, By("microbit", req.id, FALSE)), Pc("acked", 0))
    ELSE IF ~Truthy(svc) \/ ~Truthy(char) THEN Raise(W)
    ELSE IF svc = SVC_ID /\ char = CHAR_RX THEN
        IF W.microbit.notifications_rx THEN Return(W)
        ELSE LET W1 == [W EXCEPT !.microbit.notifications_rx = TRUE]
             IN  IF W1.microbit.push_task = None
                 THEN Return([W1 EXCEPT !.tasks = Append(@, NewTask("microbit", req.id)),
                                        !.microbit.push_task = Len(W1.tasks) + 1])
                 ELSE Return(W1)
    ELSE Return(W)

\* MicrobitDevice.stop_notifications
MicrobitDevice_stop_notifications(W, c, req, pc) ==
    IF pc.l = "entry"
    THEN Send(W, c, Result(req.id, By("microbit", req.id, FALSE)), Pc("acked", 0))
    ELSE IF req.serviceId = SVC_ID /\ req.characteristicId = CHAR_RX
    THEN Return([W EXCEPT !.microbit.notifications_rx = FALSE,
                          !.tasks = IF W.microbit.push_task # None
                                    THEN Cancel(@, W.microbit.push_task) ELSE @,
                          !.microbit.push_task = None])
    ELSE Return(W)

\* MicrobitDevice.read
MicrobitDevice_read(W, c, req, pc) ==
    IF req.startNotifications
    THEN MicrobitDevice_start_notifications(W, c, req, pc)
    ELSE IF pc.l = "entry"
    THEN Send(W, c, Result(req.id, By("microbit", req.id, FALSE)), Pc("last", 0))
    ELSE Return(W)

\* microbit.py: b64_to_bytes of the inbound message (never raises)
mb_b64_to_bytes(hasMessage, s) ==
    IF ~hasMessage \/ Len(s) = 0 THEN << >>
    ELSE IF b64decode(s).ok THEN b64decode(s).bytes ELSE << >>

\* bytes.decode("utf-8", errors="replace") on ASCII and stray high bytes
utf8_replace(bs) == [i \in 1 .. Len(bs) |-> IF bs[i] < 128 THEN bs[i] ELSE 65533]

Hook(W, req, hook, args) ==
    [W EXCEPT !.calls = Append(@, [hook |-> hook, args |-> args, req |-> req.id,
                                   at |-> Len(W.sent)])]

\* Mutant: an all-zero bitmap is displayed like any other
all_rows_zero_never(rows) == FALSE

\* MicrobitDevice.write: "all(b == 0 for b in rows)"
all_rows_zero(rows) == \A i \in 1 .. Len(rows) : rows[i] = 0

\* MicrobitDevice.write
MicrobitDevice_write(W, c, req, pc) ==
    IF pc.l = "entry" THEN
        LET payload == mb_b64_to_bytes(req.hasMessage, req.message)
            opcode == IF Len(payload) > 0 THEN payload[1] ELSE -1
            args == IF Len(payload) > 1 THEN SubSeq(payload, 2, Len(payload)) ELSE << >>
            rows == [i \in 1 .. 5 |-> IF i <= Len(args) THEN args[i] ELSE 0]
            W1 == IF opcode = 129 THEN Hook(W, req, "on_display_text", utf8_replace(args))
                  ELSE IF opcode = 130 THEN
                      IF all_rows_zero(rows)
                      THEN Hook(W, req, "on_clear_display", << >>)
                      ELSE Hook(W, req, "on_display_matrix", rows)
                  ELSE IF opcode = 128 /\ Len(args) >= 3
                  THEN Hook(W, req, "on_set_pixel",
                            << args[1], args[2], IF args[3] # 0 THEN 1 ELSE 0 >>)
                  ELSE W
        IN  Send(W1, c, Result(req.id, By("microbit", req.id, FALSE)), Pc("last", 0))
    ELSE Return(W)

\* MicrobitDevice.handle_rpc: register_ws, then PeripheralInterface.handle_rpc
\* of scratchlink_fakehub/peripheral_interface.py
MicrobitDevice_handle_rpc(W, c, req, pc) ==
    LET W1 == IF pc.l = "entry" THEN [W EXCEPT !.microbit.ws = c] ELSE W
        method == req.method
    IN  IF method = "discover" THEN PeripheralInterface_discover("microbit", W1, c, req, pc)
        ELSE IF method = "connect" THEN PeripheralInterface_connect("microbit", W1, c, req, pc)
        ELSE IF method = "startNotifications" THEN MicrobitDevice_start_notifications(W1, c, req, pc)
        ELSE IF method = "stopNotifications" THEN MicrobitDevice_stop_notifications(W1, c, req, pc)
        ELSE IF method = "write" THEN MicrobitDevice_write(W1, c, req, pc)
        ELSE IF method = "read" THEN MicrobitDevice_read(W1, c, req, pc)
        ELSE fallback_ack("microbit", W1, c, req, pc)

\* MicrobitDevice._push_loop and _notify: one step of task t
MicrobitDevice_push_loop(W, t) ==
    LET tk == W.tasks[t]
        m == W.microbit
        by == By("microbit", tk.req, TRUE)
    IN  IF tk.pc.l = "top" THEN
            IF HEARTBEAT_HZ <= 0 THEN [W EXCEPT !.tasks[t].st = "finished"]
            ELSE IF m.notifications_rx /\ m.ws # None
            THEN [W EXCEPT !.tasks[t].pc = Pc("sleep", 0)]
            ELSE [W EXCEPT !.tasks[t].st = "finished"]
        ELSE \* back from asyncio.sleep(period)
            LET hb == (m.hb_t + 1) % 256
                W1 == [W EXCEPT !.microbit.hb_t = hb, !.tasks[t].pc = Pc("top", 0)]
            IN  IF m.ws = None THEN W1
                ELSE IF conn[m.ws] = "open"
                THEN [W1 EXCEPT !.sent =
                          Append(@, DidChange(SVC_ID, CHAR_RX, b64(heartbeat_payload(hb)), by)
                                    @@ [ws |-> m.ws]),
                                !.nloop = @ + 1]
                ELSE \* except Exception: logged and raised again
                     [W1 EXCEPT !.tasks[t].st = "failed"]


\* ------------------------------------- scratchlink_fakehub/hub.py: the hub
\* DevicePeripheral.stop (both peripherals): the body is "pass"
DevicePeripheral_stop(W, dev) == W

\* "except Exception as e: logging.warning(...)": the error ends the handling
\* of this message only
RpcError(W, id, dev) == [W EXCEPT !.rpc_errors = Append(@, [req |-> id, dev |-> dev])]

\* Mutant: the exception leaves _handle_session
after_rpc_error_propagates == Idle("done")

\* After "except Exception" the coroutine is back in "async for raw in websocket"
after_rpc_error == Idle("idle")

\* The body of "async for raw in websocket" from device di on, until the
\* handler suspends in a send, the message is done, or an exception reaches
\* "except Exception" (which drops the rest of the message).
RECURSIVE handle_from(_, _, _, _, _)
handle_from(W, c, req, di, pc) ==
    LET dev == hubDevices[di]
        W0 == IF pc.l = "entry"
              THEN [W EXCEPT !.entered = Append(@, [dev |-> dev, req |-> req.id])]
              ELSE W
        r == IF dev = "wedo"
             THEN WeDoDevice_handle_rpc(W0, c, req, pc)
             ELSE MicrobitDevice_handle_rpc(W0, c, req, pc)
    IN  IF r.status = "await"
        THEN [W |-> r.W, sess |-> [st |-> "busy", req |-> req, di |-> di, pc |-> r.pc]]
        ELSE IF r.status = "raise"
        THEN [W |-> RpcError(r.W, req.id, dev), sess |-> after_rpc_error]
        ELSE IF di < Len(hubDevices)
        THEN handle_from(r.W, c, req, di + 1, Pc("entry", 0))
        ELSE [W |-> r.W, sess |-> Idle("idle")]

\* The "finally" of _handle_session: await device.stop() for every device
RECURSIVE stop_all(_, _)
stop_all(W, di) ==
    IF di > Len(hubDevices) THEN W
    ELSE stop_all(DevicePeripheral_stop(W, hubDevices[di]), di + 1)

Commit(W) ==
    /\ wedo' = W.wedo
    /\ microbit' = W.microbit
    /\ tasks' = W.tasks
    /\ sent' = W.sent
    /\ calls' = W.calls
    /\ nloop' = W.nloop
    /\ entered' = W.entered
    /\ rpc_errors' = W.rpc_errors

\* websockets.serve accepts a connection and starts _handle_session on it.
\* One client at a time: it connects again once its earlier session is over.
Accept(c) ==
    /\ conn[c] = "none"
    /\ IF c = 1 THEN TRUE ELSE session[c - 1].st = "done"
    /\ conn' = [conn EXCEPT ![c] = "open"]
    /\ session' = [session EXCEPT ![c] = Idle("idle")]
    /\ UNCHANGED << devices, hook_raises, api, encoded, wedo, microbit, tasks, sent, calls, reqs, nreq, nloop,
                    entered, rpc_errors >>

\* Mutant: the next frame is taken up while the handlers of the previous one
\* are still suspended (their handling is abandoned)
Receive_unawaited(c, m, limit) ==
    /\ conn[c] = "open"
    /\ session[c].st \in {"idle", "busy"}
    /\ nreq < limit
    /\ nreq' = nreq + 1
    /\ reqs' = Append(reqs, m @@ [id |-> nreq + 1, ws |-> c])
    /\ IF ~m.json
       THEN /\ Commit(RpcError(World, nreq + 1, "json"))
            /\ session' = [session EXCEPT ![c] = after_rpc_error]
       ELSE LET r == handle_from(World, c, m @@ [id |-> nreq + 1], 1, Pc("entry", 0))
            IN  /\ Commit(r.W)
                /\ session' = [session EXCEPT ![c] = r.sess]
    /\ UNCHANGED << devices, hook_raises, api, encoded, conn >>

\* "async for raw in websocket" yields the next frame m of connection c,
\* for a client that sends at most limit frames
Receive(c, m, limit) ==
    /\ conn[c] = "open"
    /\ session[c].st = "idle"
    /\ nreq < limit
    /\ nreq' = nreq + 1
    /\ reqs' = Append(reqs, m @@ [id |-> nreq + 1, ws |-> c])
    /\ IF ~m.json
       THEN \* json.loads raises; "except Exception" logs it
            /\ Commit(RpcError(World, nreq + 1, "json"))
            /\ session' = [session EXCEPT ![c] = after_rpc_error]
       ELSE LET r == handle_from(World, c, m @@ [id |-> nreq + 1], 1, Pc("entry", 0))
            IN  /\ Commit(r.W)
                /\ session' = [session EXCEPT ![c] = r.sess]
    /\ UNCHANGED << devices, hook_raises, api, encoded, conn >>

Deliver(c, m) == Receive(c, m, MaxMsgs)

\* The handler suspended in ws.send runs on
Resume(c) ==
    /\ session[c].st = "busy"
    /\ LET r == handle_from(World, c, session[c].req, session[c].di, session[c].pc)
       IN  /\ Commit(r.W)
           /\ session' = [session EXCEPT ![c] = r.sess]
    /\ UNCHANGED << devices, hook_raises, api, encoded, conn, reqs, nreq >>

\* The client disconnects
Close(c) ==
    /\ conn[c] = "open"
    /\ conn' = [conn EXCEPT ![c] = "closed"]
    /\ UNCHANGED << devices, hook_raises, api, encoded, wedo, microbit, tasks, session, sent, calls, reqs, nreq, nloop,
                    entered, rpc_errors >>

\* The iteration over a closed connection ends; the finally block runs
SessionEnd(c) ==
    /\ conn[c] = "closed"
    /\ session[c].st = "idle"
    /\ Commit(stop_all(World, 1))
    /\ session' = [session EXCEPT ![c] = Idle("done")]
    /\ UNCHANGED << devices, hook_raises, api, encoded, conn, reqs, nreq >>

\* asyncio runs push-loop task t for one step
LoopStep(t) ==
    /\ t \in 1 .. Len(tasks)
    /\ \/ /\ tasks[t].st = "cancelling"
          /\ tasks' = [tasks EXCEPT ![t].st = "cancelled"]
          /\ UNCHANGED << wedo, microbit, sent, calls, nloop, entered, rpc_errors >>
       \/ /\ tasks[t].st = "running"
          /\ nloop < MaxLoopSends
          /\ Commit(IF tasks[t].dev = "wedo"
                    THEN WeDoDevice_push_loop(World, t)
                    ELSE MicrobitDevice_push_loop(World, t))
    /\ UNCHANGED << devices, hook_raises, api, encoded, conn, session, reqs, nreq >>

Next ==
    \/ \E c \in Conns : Accept(c)
    \/ \E c \in Conns, m \in Requests : Deliver(c, m)
    \/ \E c \in Conns : Resume(c)
    \/ \E c \in Conns : Close(c)
    \/ \E c \in Conns : SessionEnd(c)
    \/ \E t \in 1 .. MaxMsgs : LoopStep(t)

Spec == Init /\ [][Next]_vars

\* A client that only writes: motor commands over the byte range's boundary
\* values, short payloads, display commands, absent and malformed messages.
NextWrite ==
    \/ \E c \in Conns : Accept(c)
    \/ \E c \in Conns, m \in WriteReqs : Deliver(c, m)
    \/ \E c \in Conns : Resume(c)
    \/ \E c \in Conns : Close(c)
    \/ \E c \in Conns : SessionEnd(c)

SpecWrite == Init /\ [][NextWrite]_vars

\* ------------------------------------------------ wedo.py: sensor setters
\* Mutant: only the upper end is clamped
clamp_byte_upper_only(value) == Min(255, value)

\* "max(0, min(255, value))"
clamp_byte(value) == Max(0, Min(255, value))

\* WeDoDevice.find_port: the first port of the kind, or None
find_port(devs, sensor_type) ==
    LET hits == { i \in 1 .. Len(devs) : devs[i][2] = sensor_type }
    IN  IF hits = {} THEN None
        ELSE devs[CHOOSE i \in hits : \A j \in hits : i <= j][1]

\* WeDoDevice.set_tilt
WeDoDevice_set_tilt(w, x, y) ==
    [w EXCEPT !.tilt_x = clamp_byte(x), !.tilt_y = clamp_byte(y)]

\* Mutant: the value is stored whether or not a distance sensor is configured
WeDoDevice_set_distance_any_port(w, devs, value) ==
    [w EXCEPT !.distance_value = clamp_byte(value)]

\* WeDoDevice.set_distance
WeDoDevice_set_distance(w, devs, value) ==
    IF find_port(devs, "distance") = None THEN w
    ELSE [w EXCEPT !.distance_value = clamp_byte(value)]

\* The arguments the application passes: below, inside and above 0..255
SensorArgs == { -1, 90, 256 }
TiltArgs == { << -1, 256 >>, << 90, 30 >>, << 256, -1 >> }

\* The application (main.py: sensor_loop) calls a setter between two steps
\* of the event loop
ApiCall(op, args, w) ==
    /\ Len(api) < MaxCalls
    /\ api' = Append(api, [op |-> op, args |-> args])
    /\ wedo' = w
    /\ UNCHANGED << devices, hook_raises, encoded, microbit, tasks, conn, session, sent,
                    calls, reqs, nreq, nloop, entered, rpc_errors >>

set_tilt(x, y) == ApiCall("set_tilt", << x, y >>, WeDoDevice_set_tilt(wedo, x, y))
set_distance(value) == ApiCall("set_distance", << value >>, WeDoDevice_set_distance(wedo, devices, value))
tilt_up == ApiCall("tilt_up", << >>, WeDoDevice_set_tilt(wedo, 0, 60))
tilt_down == ApiCall("tilt_down", << >>, WeDoDevice_set_tilt(wedo, 0, 30))
tilt_left == ApiCall("tilt_left", << >>, WeDoDevice_set_tilt(wedo, 60, 0))
tilt_right == ApiCall("tilt_right", << >>, WeDoDevice_set_tilt(wedo, 30, 0))

\* The frames of a client that subscribes to the sensor channel
SensorReqs ==
    { Req(m, SENSOR_SERVICE, SENSOR_CHAR, FALSE, <<>>, FALSE) :
        m \in {"startNotifications", "stopNotifications"} }

\* The hub with an application that drives the sensor values
NextSensors ==
    \/ \E c \in Conns : Accept(c)
    \/ \E c \in Conns, m \in SensorReqs : Deliver(c, m)
    \/ \E c \in Conns : Resume(c)
    \/ \E c \in Conns : Close(c)
    \/ \E c \in Conns : SessionEnd(c)
    \/ \E t \in 1 .. MaxMsgs : LoopStep(t)
    \/ \E xy \in TiltArgs : set_tilt(xy[1], xy[2])
    \/ \E value \in SensorArgs : set_distance(value)
    \/ tilt_up
    \/ tilt_down
    \/ tilt_left
    \/ tilt_right

SpecSensors == Init /\ [][NextSensors]_vars

\* The frames of a client that starts and stops the push loops: the WeDo
\* sensor channel, and the micro:bit channel (started through read, stopped
\* through stopNotifications)
RestartReqs ==
    { Req(m, SENSOR_SERVICE, SENSOR_CHAR, FALSE, <<>>, FALSE) :
        m \in {"startNotifications", "stopNotifications"} }
    \cup { Req("read", SVC_ID, CHAR_RX, FALSE, <<>>, TRUE),
           Req("stopNotifications", SVC_ID, CHAR_RX, FALSE, <<>>, FALSE) }

\* The hub with a client that sends up to MaxRestartMsgs such frames
NextRestart ==
    \/ \E c \in Conns : Accept(c)
    \/ \E c \in Conns, m \in RestartReqs : Receive(c, m, MaxRestartMsgs)
    \/ \E c \in Conns : Resume(c)
    \/ \E c \in Conns : Close(c)
    \/ \E c \in Conns : SessionEnd(c)
    \/ \E t \in 1 .. MaxRestartMsgs : LoopStep(t)

SpecRestart == Init /\ [][NextRestart]_vars


\* websockets.serve accepts a connection while others may be open: each
\* connection gets its own _handle_session coroutine
Connect(c) ==
    /\ conn[c] = "none"
    /\ conn' = [conn EXCEPT ![c] = "open"]
    /\ session' = [session EXCEPT ![c] = Idle("idle")]
    /\ UNCHANGED << devices, hook_raises, api, encoded, wedo, microbit, tasks, sent, calls,
                    reqs, nreq, nloop, entered, rpc_errors >>

\* The frames of clients that start a push loop or ask for the version
SharedReqs ==
    { Req("startNotifications", SENSOR_SERVICE, SENSOR_CHAR, FALSE, <<>>, FALSE),
      Req("read", SVC_ID, CHAR_RX, FALSE, <<>>, TRUE),
      Req("getVersion", Null, Null, FALSE, <<>>, FALSE) }

\* The hub with clients whose connections may be open at the same time
NextShared ==
    \/ \E c \in Conns : Connect(c)
    \/ \E c \in Conns, m \in SharedReqs : Deliver(c, m)
    \/ \E c \in Conns : Resume(c)
    \/ \E c \in Conns : Close(c)
    \/ \E c \in Conns : SessionEnd(c)
    \/ \E t \in 1 .. MaxMsgs : LoopStep(t)

SpecShared == Init /\ [][NextShared]_vars

\* The frames of a client that subscribes to both WeDo channels and drives
\* the motor of a configured and of an unconfigured port
PortReqs ==
    { Req(m, p[1], p[2], FALSE, <<>>, FALSE) :
        m \in {"startNotifications", "stopNotifications"},
        p \in { <<PORT_SERVICE, PORT_CHAR>>, <<SENSOR_SERVICE, SENSOR_CHAR>> } }
    \cup { Req("write", PORT_SERVICE, PORT_CHAR, TRUE, b64(<< port, 0, 0, b >>), FALSE) :
              port \in {1, 9}, b \in {100, 200} }

\* The hub with that client and an application that drives the sensor values
NextPorts ==
    \/ \E c \in Conns : Accept(c)
    \/ \E c \in Conns, m \in PortReqs : Deliver(c, m)
    \/ \E c \in Conns : Resume(c)
    \/ \E c \in Conns : Close(c)
    \/ \E c \in Conns : SessionEnd(c)
    \/ \E t \in 1 .. MaxMsgs : LoopStep(t)
    \/ set_tilt(90, 30)
    \/ set_distance(90)

SpecPorts == Init /\ [][NextPorts]_vars

\* ------------------------------------------- wedo.py: the codec, called directly
\* The outcome of a codec call: the frame returned, or an exception
Returned(frame) == [raised |-> FALSE, frame |-> frame]
Raised == [raised |-> TRUE, frame |-> << >>]

\* Mutant: an unknown kind is encoded with the motor's type code
encode_attach_defaulting(port, device) ==
    IF device \in DOMAIN DEVICE_TYPES THEN Returned(encode_attach(port, device))
    ELSE Returned(encode_attach(port, "motor"))

\* WeDoDevice.encode_attach for any device kind: "DEVICE_TYPES[device]"
\* raises KeyError for a kind that is not in the table
encode_attach_checked(port, device) ==
    IF device \in DOMAIN DEVICE_TYPES THEN Returned(encode_attach(port, device))
    ELSE Raised

\* Mutant: an unknown kind falls through to the motor frame
encode_sensor_defaulting(w, port, device) == Returned(encode_sensor(w, port, device))

\* WeDoDevice.encode_sensor for any device kind: the three "if device =="
\* branches, then raise Exception("Unknown device type")
encode_sensor_checked(w, port, device) ==
    IF device \in {"distance", "tilt", "motor"} THEN Returned(encode_sensor(w, port, device))
    ELSE Raised

\* The ports and kinds the codec is called with (tests: encode_sensor(4, "mystery"))
CodecPorts == { 1, 4 }
CodecKinds == WedoSensors \cup { "mystery" }

CodecCall(op, port, device, outcome) ==
    /\ Len(encoded) < MaxCalls
    /\ encoded' = Append(encoded, [op |-> op, port |-> port, device |-> device] @@ outcome)
    /\ UNCHANGED << devices, hook_raises, api, wedo, microbit, tasks, conn, session, sent,
                    calls, reqs, nreq, nloop, entered, rpc_errors >>

encode_attach_call(port, device) ==
    CodecCall("encode_attach", port, device, encode_attach_checked(port, device))

encode_sensor_call(port, device) ==
    CodecCall("encode_sensor", port, device, encode_sensor_checked(wedo, port, device))

\* An application that sets sensor values and calls the codec
NextCodec ==
    \/ \E xy \in TiltArgs : set_tilt(xy[1], xy[2])
    \/ \E value \in SensorArgs : set_distance(value)
    \/ \E port \in CodecPorts, device \in CodecKinds : encode_attach_call(port, device)
    \/ \E port \in CodecPorts, device \in CodecKinds : encode_sensor_call(port, device)

SpecCodec == Init /\ [][NextCodec]_vars

\* ------------------------------------ microbit.py: events the application raises
\* Mutant: the value is stored high byte first
int16_le_swapped(v) ==
    LET u == IF v < 0 THEN v + 65536 ELSE v IN << u \div 256, u % 256 >>

\* "(v & 0xFFFF).to_bytes(2, "little")"
int16_le(v) ==
    LET u == IF v < 0 THEN v + 65536 ELSE v IN << u % 256, u \div 256 >>

\* MicrobitDevice._notify called outside a push loop: nothing is sent while
\* no connection is registered; a send on a closed connection raises
MicrobitDevice_notify(svc, char, payload) ==
    IF microbit.ws = None THEN [raised |-> FALSE, sent |-> sent]
    ELSE IF conn[microbit.ws] = "open"
    THEN [raised |-> FALSE,
          sent |-> Append(sent, DidChange(svc, char, b64(payload), By("microbit", 0, FALSE))
                                @@ [ws |-> microbit.ws])]
    ELSE [raised |-> TRUE, sent |-> sent]

\* MicrobitDevice.accelerometer: ValueError for a component outside int16
MicrobitDevice_accelerometer(x, y, z) ==
    IF \E v \in {x, y, z} : ~(-32768 <= v /\ v <= 32767)
    THEN [raised |-> TRUE, sent |-> sent]
    ELSE MicrobitDevice_notify(ACCEL_SERVICE, ACCEL_DATA_CHAR,
                               int16_le(x) \o int16_le(y) \o int16_le(z))

\* The triples the application reports: the helpers' values, the ends of
\* the int16 range, and one step beyond each end
AccelArgs == { << 0, -800, 1000 >>, << -32768, 32767, -1 >>,
               << 32768, 0, 0 >>, << 0, 0, -32769 >> }

accelerometer(x, y, z) ==
    LET r == MicrobitDevice_accelerometer(x, y, z)
    IN  /\ Len(api) < MaxCalls
        /\ api' = Append(api, [op |-> "accelerometer", args |-> << x, y, z >>,
                               raised |-> r.raised])
        /\ sent' = r.sent
        /\ UNCHANGED << devices, hook_raises, encoded, wedo, microbit, tasks, conn, session,
                        calls, reqs, nreq, nloop, entered, rpc_errors >>

\* The frames of a client of the micro:bit
MicrobitReqs ==
    { Req(m, SVC_ID, CHAR_RX, FALSE, <<>>, FALSE) :
        m \in {"startNotifications", "stopNotifications", "read"} }
    \cup ReadStartReqs

\* The hub with an application that reports accelerometer values
NextMicrobit ==
    \/ \E c \in Conns : Accept(c)
    \/ \E c \in Conns, m \in MicrobitReqs : Deliver(c, m)
    \/ \E c \in Conns : Resume(c)
    \/ \E c \in Conns : Close(c)
    \/ \E c \in Conns : SessionEnd(c)
    \/ \E t \in 1 .. MaxMsgs : LoopStep(t)
    \/ \E a \in AccelArgs : accelerometer(a[1], a[2], a[3])

SpecMicrobit == Init /\ [][NextMicrobit]_vars

\* The frames of a client that reads: with and without the startNotifications
\* parameter, for each peripheral's pairs and without a pair
ReadReqs ==
    { Req("read", p[1], p[2], FALSE, <<>>, startN) : p \in Pairs, startN \in BOOLEAN }

NextRead ==
    \/ \E c \in Conns : Accept(c)
    \/ \E c \in Conns, m \in ReadReqs : Deliver(c, m)
    \/ \E c \in Conns : Resume(c)
    \/ \E c \in Conns : Close(c)
    \/ \E c \in Conns : SessionEnd(c)
    \/ \E t \in 1 .. MaxMsgs : LoopStep(t)

SpecRead == Init /\ [][NextRead]_vars

\* Subscription requests that lack serviceId, characteristicId or both, as
\* startNotifications and as read with startNotifications, next to the
\* complete requests that start each peripheral's loop
MissingPairs == { <<Null, Null>>, <<PORT_SERVICE, Null>>, <<Null, PORT_CHAR>>,
                  <<SENSOR_SERVICE, Null>>, <<SVC_ID, Null>>, <<Null, CHAR_RX>> }

MissingIdReqs ==
    { Req("startNotifications", p[1], p[2], FALSE, <<>>, FALSE) : p \in MissingPairs }
    \cup { Req("read", p[1], p[2], FALSE, <<>>, TRUE) : p \in MissingPairs }
    \cup { Req("startNotifications", SENSOR_SERVICE, SENSOR_CHAR, FALSE, <<>>, FALSE),
           Req("read", SVC_ID, CHAR_RX, FALSE, <<>>, TRUE) }

NextMissingId ==
    \/ \E c \in Conns : Accept(c)
    \/ \E c \in Conns, m \in MissingIdReqs : Deliver(c, m)
    \/ \E c \in Conns : Resume(c)
    \/ \E c \in Conns : Close(c)
    \/ \E c \in Conns : SessionEnd(c)
    \/ \E t \in 1 .. MaxMsgs : LoopStep(t)

SpecMissingId == Init /\ [][NextMissingId]_vars

\* Decoded micro:bit write payloads: each opcode with enough, too few and
\* too many argument bytes, an unknown opcode and the empty payload
DisplayPayloads ==
    { << 128, 1, 2, 1 >>, << 128, 3, 4, 0 >>, << 128, 1, 2 >>, << 128 >>,
      << 129, 72, 105 >>, << 129 >>,
      << 130, 0, 0, 0, 0, 0 >>, << 130 >>, << 130, 0, 0 >>, << 130, 1, 2 >>,
      << 130, 1, 2, 3, 4, 5, 6 >>, << 130, 0, 0, 0, 0, 0, 6 >>,
      << 1, 2, 3 >>, << >> }

DisplayReqs ==
    { Req("write", SVC_ID, CHAR_TX, TRUE, b64(d), FALSE) : d \in DisplayPayloads }
    \cup { Req("write", SVC_ID, CHAR_TX, FALSE, <<>>, FALSE) }

NextDisplay ==
    \/ \E c \in Conns : Accept(c)
    \/ \E c \in Conns, m \in DisplayReqs : Deliver(c, m)
    \/ \E c \in Conns : Resume(c)
    \/ \E c \in Conns : Close(c)
    \/ \E c \in Conns : SessionEnd(c)

SpecDisplay == Init /\ [][NextDisplay]_vars

\* The writing client against an application whose on_motor_power may raise
SpecHook == InitHook /\ [][NextWrite]_vars


\* ----------------------------------------------------------- observations
Range(f) == { f[i] : i \in DOMAIN f }

IsSub(r, method, svc, char) ==
    r.json /\ r.method = method /\ r.serviceId = svc /\ r.characteristicId = char

\* The subscription pairs of the WeDo peripheral: ports channel, sensor channel
WeDoPairs == { <<PORT_SERVICE, PORT_CHAR>>, <<SENSOR_SERVICE, SENSOR_CHAR>> }

\* No _handle_session coroutine is inside a handler
BetweenHandlers == \A c \in Conns : session[c].st # "busy"

\* Request n has been delivered and device number di has returned from it
DeviceDone(n, di) ==
    /\ n \in 1 .. Len(reqs)
    /\ \A c \in Conns : ~(session[c].st = "busy" /\ session[c].req.id = n /\ session[c].di <= di)

\* The frames the handler of device dev sent while handling request n
FramesBy(dev, n) ==
    SelectSeq(sent, LAMBDA f : f.by.dev = dev /\ f.by.req = n /\ ~f.by.loop)

\* The push-loop tasks the handler of request n created
TasksOf(n) == { t \in 1 .. Len(tasks) : tasks[t].req = n }

Live(t) == tasks[t].st = "running"
LiveLoops(dev) == { t \in 1 .. Len(tasks) : tasks[t].dev = dev /\ Live(t) }

IsAck(f, n) == f.method = "" /\ f.id = n

\* ----------------------------------------------------------------- claims
\* C1: for each WeDo subscription pair (ports, sensor), two startNotifications
\* requests a < b for that pair with no stopNotifications for it between them:
\* once the WeDo handler of b has returned, b has produced only its ack (no
\* attach frame, no push loop); and when a found the subscription idle (no
\* earlier request for the pair, or the latest one a stop), a and b together
\* have created exactly one push loop on the sensor pair and a has sent at
\* most one attach frame per port on the ports pair.
C1_StartTwiceSpawnsOnce ==
    \A p \in WeDoPairs : \A a \in 1 .. Len(reqs) : \A b \in 1 .. Len(reqs) :
        ( /\ a < b
          /\ IsSub(reqs[a], "startNotifications", p[1], p[2])
          /\ IsSub(reqs[b], "startNotifications", p[1], p[2])
          /\ \A k \in (a + 1) .. (b - 1) : ~IsSub(reqs[k], "stopNotifications", p[1], p[2])
          /\ DeviceDone(b, 1) )
        =>
        /\ Len(FramesBy("wedo", b)) = 1
        /\ IsAck(FramesBy("wedo", b)[1], b)
        /\ TasksOf(b) = {}
        /\ Len(FramesBy("wedo", a)) <= 1 + Len(devices)
        /\ ( /\ p[1] = SENSOR_SERVICE
             /\ \A k \in 1 .. (a - 1) :
                   IsSub(reqs[k], "startNotifications", p[1], p[2])
                   => \E j \in (k + 1) .. (a - 1) : IsSub(reqs[j], "stopNotifications", p[1], p[2]) )
           => /\ Cardinality(TasksOf(a) \cup TasksOf(b)) = 1
              /\ \A t \in TasksOf(a) : tasks[t].dev = "wedo"

\* C1 witness: two sensor-channel starts in a row have both been handled
C1_Witness ==
    /\ BetweenHandlers
    /\ Len(reqs) = 2
    /\ IsSub(reqs[1], "startNotifications", SENSOR_SERVICE, SENSOR_CHAR)
    /\ IsSub(reqs[2], "startNotifications", SENSOR_SERVICE, SENSOR_CHAR)
    /\ Len(tasks) = 1

\* C2 (as claimed): between RPC handlers, a peripheral has a live push loop
\* if and only if its sensor/RX subscription flag is true and a transport is
\* attached.
C2_LoopIffSubscribed ==
    BetweenHandlers =>
        /\ (LiveLoops("wedo") # {}) <=> (wedo.notifications_sensor /\ wedo.ws # None)
        /\ (LiveLoops("microbit") # {}) <=> (microbit.notifications_rx /\ microbit.ws # None)

\* C3 (as claimed): every well-formed request whose handling is over has
\* exactly one result frame carrying its id.
C3_ExactlyOneResult ==
    \A n \in 1 .. Len(reqs) :
        (reqs[n].json /\ DeviceDone(n, Len(hubDevices)))
        => Cardinality({ k \in 1 .. Len(sent) : IsAck(sent[k], n) }) = 1

\* C4: every notification frame (attach frame, push-loop frame,
\* didDiscoverPeripheral) is preceded on the wire by the result frame that
\* the same peripheral sent for the request that triggered it.
C4_AckBeforeNotify ==
    \A k \in 1 .. Len(sent) :
        sent[k].method # ""
        => \E j \in 1 .. (k - 1) :
              /\ IsAck(sent[j], sent[k].by.req)
              /\ sent[j].by.dev = sent[k].by.dev

\* C4 witness: a didDiscoverPeripheral and a push-loop frame have been sent
C4_Witness ==
    /\ \E k \in 1 .. Len(sent) : sent[k].method = "didDiscoverPeripheral"
    /\ \E k \in 1 .. Len(sent) : sent[k].by.loop

\* The device-type codes as the specification lists them
C5_TypeCode(kind) ==
    CASE kind = "motor" -> 1 [] kind = "tilt" -> 34 [] kind = "distance" -> 35

\* Request n is the first startNotifications on the ports channel
C5_FirstPortsStart(n) ==
    /\ IsSub(reqs[n], "startNotifications", PORT_SERVICE, PORT_CHAR)
    /\ \A k \in 1 .. (n - 1) : ~IsSub(reqs[k], "startNotifications", PORT_SERVICE, PORT_CHAR)

\* C5: once the WeDo handler of the first ports-channel startNotifications
\* has returned on a connection that is still open, what it sent is the ack
\* followed by exactly one characteristicDidChange per configured port, in
\* port order, whose decoded payload starts with the port, 0x01 and has the
\* port's device-type code as fourth byte.
C5_AttachFramesPerPort ==
    \A n \in 1 .. Len(reqs) :
        (C5_FirstPortsStart(n) /\ DeviceDone(n, 1) /\ conn[reqs[n].ws] = "open")
        => LET F == FramesBy("wedo", n)
           IN  /\ Len(F) = 1 + Len(devices)
               /\ IsAck(F[1], n)
               /\ \A i \in 1 .. Len(devices) :
                    LET payload == b64_to_bytes(F[i + 1].message)
                    IN  /\ F[i + 1].method = "characteristicDidChange"
                        /\ F[i + 1].serviceId = PORT_SERVICE
                        /\ F[i + 1].characteristicId = PORT_CHAR
                        /\ Len(payload) = 12
                        /\ payload[1] = devices[i][1]
                        /\ payload[2] = 1
                        /\ payload[4] = C5_TypeCode(devices[i][2])

\* C5 witness: ports {1: motor, 2: tilt}, the ack and exactly 2 attach frames
C5_Witness ==
    /\ devices = << <<1, "motor">>, <<2, "tilt">> >>
    /\ Len(reqs) >= 1
    /\ C5_FirstPortsStart(1)
    /\ DeviceDone(1, 1)
    /\ conn[reqs[1].ws] = "open"
    /\ Len(FramesBy("wedo", 1)) = 3


\* The step is one of connection c's _handle_session, resuming its handler
Resumes(c) == session[c].st = "busy" /\ session'[c] # session[c]

\* The step delivers a frame (the request is the last of reqs')
Delivers == nreq' = nreq + 1

\* The frames and hook invocations the step adds
NewFrames == SubSeq(sent', Len(sent) + 1, Len(sent'))
NewCalls == SubSeq(calls', Len(calls) + 1, Len(calls'))

\* The decoded payload of a write request (ok = FALSE: not valid base64)
WritePayload(r) == b64decode(IF r.hasMessage THEN r.message ELSE << >>)

\* C6: a write whose decoded payload has at least 3 bytes, first byte port
\* and last byte b: with power = b for b < 128 and b - 256 otherwise, the
\* delivery step stores min(127, |power|) in motor_power[port], invokes
\* on_motor_power(port, that magnitude, +1 if power >= 0 else -1) exactly
\* once, and then sends the ack with the request id.
C6_MotorWrite ==
    [][ ( /\ Delivers
          /\ Last(reqs').json
          /\ Last(reqs').method = "write"
          /\ WritePayload(Last(reqs')).ok
          /\ Len(WritePayload(Last(reqs')).bytes) >= 3 )
        => LET r == Last(reqs')
               data == WritePayload(r).bytes
               port == data[1]
               b == Last(data)
               power == IF b < 128 THEN b ELSE b - 256
               direction == IF power >= 0 THEN 1 ELSE -1
               magnitude == Min(127, Abs(power))
           IN  /\ port \in DOMAIN wedo'.motor_power
               /\ wedo'.motor_power[port] = magnitude
               /\ Len(NewCalls) = 1
               /\ NewCalls[1].hook = "on_motor_power"
               /\ NewCalls[1].args = << port, magnitude, direction >>
               /\ NewCalls[1].req = r.id
               /\ Len(NewFrames) = 1
               /\ IsAck(NewFrames[1], r.id)
               /\ NewFrames[1].ws = r.ws
               /\ NewCalls[1].at < Len(sent')
      ]_vars

\* C6 witness: the scenario [1, 0, 0, 0xFF] has invoked on_motor_power(1, 1, -1)
C6_Witness ==
    \E k \in 1 .. Len(calls) :
        /\ calls[k].hook = "on_motor_power"
        /\ calls[k].args = << 1, 1, -1 >>
        /\ \E j \in 1 .. Len(sent) : IsAck(sent[j], calls[k].req) /\ sent[j].by.dev = "wedo"

\* The step belongs to the handling of a write whose decoded payload has
\* fewer than 3 bytes
C7_ShortWrite(r) ==
    /\ r.json
    /\ r.method = "write"
    /\ WritePayload(r).ok
    /\ Len(WritePayload(r).bytes) < 3

\* C7: a write whose decoded payload has fewer than 3 bytes changes no value
\* of the WeDo peripheral (only the registered transport), invokes no
\* on_motor_power, and its delivery step sends the ack with the request id.
C7_ShortWriteIgnored ==
    [][ /\ (Delivers /\ C7_ShortWrite(Last(reqs')))
           => /\ wedo' = [wedo EXCEPT !.ws = Last(reqs').ws]
              /\ \A k \in 1 .. Len(NewCalls) : NewCalls[k].hook # "on_motor_power"
              /\ Len(NewFrames) = 1
              /\ IsAck(NewFrames[1], Last(reqs').id)
              /\ NewFrames[1].by.dev = "wedo"
        /\ \A c \in Conns :
              (Resumes(c) /\ C7_ShortWrite(session[c].req))
              => /\ wedo' = wedo
                 /\ \A k \in 1 .. Len(NewCalls) : NewCalls[k].hook # "on_motor_power"
      ]_vars

\* C7 witness: the two-byte write of test_write_ignores_short_payload has
\* been handled by both peripherals
C7_Witness ==
    \E n \in 1 .. Len(reqs) :
        /\ C7_ShortWrite(reqs[n])
        /\ WritePayload(reqs[n]).bytes = << 1, 2 >>
        /\ DeviceDone(n, Len(hubDevices))
        /\ Len(FramesBy("microbit", n)) = 1

\* The step is the return of the WeDo stop_notifications handler of
\* connection c (the code after its ack)
WeDoStopReturns(c) ==
    /\ Resumes(c)
    /\ session[c].req.method = "stopNotifications"
    /\ session[c].di = 1
    /\ session[c].pc.l = "acked"

\* C8: when the WeDo stopNotifications handler returns for the sensor
\* channel, notifications_sensor is false, push_task is None and no push
\* loop of the peripheral is still running; for the ports channel,
\* notifications_ports is false.
C8_StopReleasesLoop ==
    [][ \A c \in Conns :
          WeDoStopReturns(c)
          => /\ IsSub(session[c].req, "stopNotifications", SENSOR_SERVICE, SENSOR_CHAR)
                => /\ ~wedo'.notifications_sensor
                   /\ wedo'.push_task = None
                   /\ \A t \in 1 .. Len(tasks') : tasks'[t].dev = "wedo" => tasks'[t].st # "running"
             /\ IsSub(session[c].req, "stopNotifications", PORT_SERVICE, PORT_CHAR)
                => ~wedo'.notifications_ports
      ]_vars

\* C8 witness: a sensor-channel stop has cancelled a push loop that had sent
C8_Witness ==
    /\ \E t \in 1 .. Len(tasks) : tasks[t].dev = "wedo" /\ tasks[t].st = "cancelling"
    /\ \E k \in 1 .. Len(sent) : sent[k].by.loop
    /\ wedo.push_task = None
    /\ ~wedo.notifications_sensor

\* The subscription of the peripheral that request r addresses is active
WeDoAddressedActive(r) ==
    \/ r.serviceId = PORT_SERVICE /\ r.characteristicId = PORT_CHAR /\ wedo.notifications_ports
    \/ r.serviceId = SENSOR_SERVICE /\ r.characteristicId = SENSOR_CHAR /\ wedo.notifications_sensor

MicrobitAddressedActive(r) ==
    r.serviceId = SVC_ID /\ r.characteristicId = CHAR_RX /\ microbit.notifications_rx

\* C9: a step of the handling of a stopNotifications request leaves every
\* field of a peripheral whose addressed subscription is not active as it
\* was (only the registered transport is set), leaves the tasks alone when
\* neither is active, sends the WeDo ack on delivery, and the WeDo handler
\* returns without an error, so that the next peripheral answers too.
C9_StopWhenIdle ==
    [][ \A c \in Conns :
          LET r == IF Delivers THEN Last(reqs') ELSE session[c].req
              mine == IF Delivers THEN Last(reqs').ws = c ELSE Resumes(c)
          IN  (mine /\ r.json /\ r.method = "stopNotifications")
              => /\ ~WeDoAddressedActive(r)
                    => [wedo' EXCEPT !.ws = None] = [wedo EXCEPT !.ws = None]
                 /\ ~MicrobitAddressedActive(r)
                    => [microbit' EXCEPT !.ws = None] = [microbit EXCEPT !.ws = None]
                 /\ (~WeDoAddressedActive(r) /\ ~MicrobitAddressedActive(r))
                    => tasks' = tasks
                 /\ Delivers
                    => /\ Len(NewFrames) = 1
                       /\ IsAck(NewFrames[1], r.id)
                       /\ NewFrames[1].by.dev = "wedo"
                 /\ (WeDoStopReturns(c) /\ conn[c] = "open")
                    => /\ Len(NewFrames) = 1
                       /\ IsAck(NewFrames[1], r.id)
                       /\ NewFrames[1].by.dev = "microbit"
      ]_vars

\* C9 witness: a sensor-channel stop with nothing subscribed has been
\* answered by both peripherals
C9_Witness ==
    /\ Len(reqs) >= 1
    /\ IsSub(reqs[1], "stopNotifications", SENSOR_SERVICE, SENSOR_CHAR)
    /\ DeviceDone(1, Len(hubDevices))
    /\ Len(FramesBy("wedo", 1)) = 1
    /\ Len(FramesBy("microbit", 1)) = 1
    /\ wedo = [WeDoDevice_init(devices) EXCEPT !.ws = 1]

\* C10 (as claimed): once the session handler of a connection has finished,
\* no peripheral registered on it has a live push loop and no peripheral
\* still references the closed transport.
C10_SessionEndReleases ==
    \A c \in Conns :
        session[c].st = "done"
        => /\ wedo.ws # c
           /\ microbit.ws # c
           /\ \A t \in 1 .. Len(tasks) :
                 Live(t) => (IF tasks[t].dev = "wedo" THEN wedo.ws ELSE microbit.ws) # c

\* One step of push-loop task t (no session handler runs in the step)
LoopRuns(t) ==
    /\ t \in 1 .. Len(tasks)
    /\ tasks[t].st = "running"
    /\ tasks'[t] # tasks[t]
    /\ session' = session
    /\ reqs' = reqs

\* Task t of the WeDo peripheral is about to call self.ws.send
WeDoLoopAtSend(t) ==
    /\ tasks[t].dev = "wedo"
    /\ Len(devices) > 0
    /\ wedo.ws # None
    /\ tasks[t].pc.l = "top" => wedo.notifications_sensor

\* C11: when a send of the WeDo push loop fails because the connection is
\* closed, the loop terminates without an exception leaving it (the task
\* ends normally), the step writes no frame and keeps every frame sent
\* before; a loop that has ended never runs or sends again.
C11_LoopEndsOnClosedSend ==
    [][ /\ \A t \in 1 .. Len(tasks) :
              ( LoopRuns(t) /\ WeDoLoopAtSend(t) /\ conn[wedo.ws] = "closed" )
              => /\ tasks'[t].st = "finished"
                 /\ sent' = sent
                 /\ wedo' = wedo
        /\ \A t \in 1 .. Len(tasks) :
              tasks[t].st = "finished" => tasks'[t] = tasks[t]
        /\ \A k \in 1 .. Len(NewFrames) :
              NewFrames[k].by.loop
              => \E t \in 1 .. Len(tasks) :
                    /\ tasks[t].req = NewFrames[k].by.req
                    /\ tasks[t].st = "running"
      ]_vars

\* C11 witness: a WeDo loop that had sent a frame has ended on a send to the
\* closed connection
C11_Witness ==
    \E t \in 1 .. Len(tasks) :
        /\ tasks[t].dev = "wedo"
        /\ tasks[t].st = "finished"
        /\ wedo.ws # None
        /\ conn[wedo.ws] = "closed"
        /\ \E k \in 1 .. Len(sent) :
              sent[k].by.loop /\ sent[k].by.dev = "wedo" /\ sent[k].by.req = tasks[t].req

\* The handle_rpc calls and the RPC-error warnings the step adds
NewEntered == SubSeq(entered', Len(entered) + 1, Len(entered'))
NewErrors == SubSeq(rpc_errors', Len(rpc_errors) + 1, Len(rpc_errors'))

\* C12: a frame that is not JSON, or one that makes a peripheral handler
\* raise, does not end the session: the step that logs the RPC error leaves
\* the session handler waiting for the next frame on a connection whose
\* state it did not change, a session handler ends only after the client
\* disconnected, and every frame that parses is handed to the first
\* peripheral in the step that delivers it, whatever came before it.
C12_ErrorKeepsSession ==
    [][ /\ \A k \in 1 .. Len(NewErrors) :
              LET c == reqs'[NewErrors[k].req].ws
              IN  /\ session'[c].st = "idle"
                  /\ conn'[c] = conn[c]
        /\ \A c \in Conns : session'[c].st = "done" => conn'[c] = "closed"
        /\ ( Delivers /\ Last(reqs').json )
           => ( Len(NewEntered) >= 1
                /\ NewEntered[1] = [dev |-> hubDevices[1], req |-> Last(reqs').id] )
      ]_vars

\* C12 witness: a handler raised on frame 1 while the connection was open,
\* and frame 2 of the same connection was dispatched
C12_Witness ==
    /\ Len(reqs) = 2
    /\ reqs[1].ws = reqs[2].ws
    /\ conn[reqs[1].ws] = "open"
    /\ reqs[1].json
    /\ \E k \in 1 .. Len(rpc_errors) : rpc_errors[k].req = 1
    /\ \E k \in 1 .. Len(entered) : entered[k].req = 2

\* The hub has called handle_rpc of peripheral dev with request n
Entered(dev, n) == \E k \in 1 .. Len(entered) : entered[k] = [dev |-> dev, req |-> n]

\* C13 (as claimed): once the hub is done with a frame that parsed as JSON,
\* on a connection that is still open, the handler of every registered
\* peripheral has been run against it.
C13_EveryHandlerRuns ==
    \A n \in 1 .. Len(reqs) :
        ( /\ reqs[n].json
          /\ DeviceDone(n, Len(hubDevices))
          /\ conn[reqs[n].ws] = "open" )
        => \A di \in 1 .. Len(hubDevices) : Entered(hubDevices[di], n)

\* The handler of request n runs in the step
Handles(n) ==
    \/ Delivers /\ n = Len(reqs')
    \/ \E c \in Conns : Resumes(c) /\ session[c].req.id = n

\* The services of each peripheral
WeDoOwns(r) == r.serviceId \in {PORT_SERVICE, SENSOR_SERVICE}
MicrobitOwns(r) == r.serviceId = SVC_ID

\* The step leaves the subscription flags, loop handle, motor_power and sensor
\* values of the WeDo peripheral alone and calls none of its hooks
WeDoUntouched ==
    /\ [wedo' EXCEPT !.ws = 0] = [wedo EXCEPT !.ws = 0]
    /\ \A k \in 1 .. Len(NewCalls) : NewCalls[k].hook # "on_motor_power"

MicrobitUntouched ==
    /\ [microbit' EXCEPT !.ws = 0] = [microbit EXCEPT !.ws = 0]
    /\ \A k \in 1 .. Len(NewCalls) : NewCalls[k].hook = "on_motor_power"

\* C14 (as claimed): a startNotifications, stopNotifications or write request
\* whose (serviceId, characteristicId) pair is not one of a peripheral's is a
\* no-op for that peripheral: no step of its handling changes that
\* peripheral's flags, loop handle, motor_power or sensor values, or calls
\* one of its hooks.
C14_ForeignPairNoOp ==
    [][ \A n \in 1 .. Len(reqs') :
          ( /\ Handles(n)
            /\ reqs'[n].json
            /\ reqs'[n].method \in {"startNotifications", "stopNotifications", "write"} )
          => /\ ~WeDoOwns(reqs'[n]) => WeDoUntouched
             /\ ~MicrobitOwns(reqs'[n]) => MicrobitUntouched
      ]_vars

\* C15 (as claimed): when on_motor_power fails during a motor write, the
\* failure is caught and the step still sends the ack with the request id.
C15_HookFailureStillAcks ==
    [][ ( /\ Delivers
          /\ hook_raises
          /\ Last(reqs').json
          /\ Last(reqs').method = "write"
          /\ WritePayload(Last(reqs')).ok
          /\ is_motor_command(WritePayload(Last(reqs')).bytes)
          /\ conn[Last(reqs').ws] = "open" )
        => /\ \E k \in 1 .. Len(NewFrames) :
                 IsAck(NewFrames[k], Last(reqs').id) /\ NewFrames[k].by.dev = "wedo"
           /\ Len(NewErrors) = 0
      ]_vars

\* C16 (as claimed): for every peripheral, the step in which its handler
\* takes a write whose message is missing or is not valid base64 raises
\* nothing, changes no peripheral state, calls no hook and sends that
\* peripheral's ack with the request id.
C16_BadMessageWrite ==
    [][ \A k \in 1 .. Len(NewEntered) :
          LET n == NewEntered[k].req
              r == reqs'[n]
          IN  ( /\ r.method = "write"
                /\ ~r.hasMessage \/ ~WritePayload(r).ok
                /\ conn[r.ws] = "open" )
              => /\ Len(NewErrors) = 0
                 /\ Len(NewCalls) = 0
                 /\ [wedo' EXCEPT !.ws = 0] = [wedo EXCEPT !.ws = 0]
                 /\ [microbit' EXCEPT !.ws = 0] = [microbit EXCEPT !.ws = 0]
                 /\ \E j \in 1 .. Len(NewFrames) :
                       IsAck(NewFrames[j], n) /\ NewFrames[j].by.dev = NewEntered[k].dev
      ]_vars

\* The setter call made in the step, and the value clamped to a byte
Calls(op) == Len(api') = Len(api) + 1 /\ Last(api').op = op
Clamped(v) == IF v < 0 THEN 0 ELSE IF v > 255 THEN 255 ELSE v

TiltIs(x, y) == wedo'.tilt_x = x /\ wedo'.tilt_y = y
HasDistancePort == \E i \in 1 .. Len(devices) : devices[i][2] = "distance"

\* What every setter step and every other step does to the tilt values
C17_Tilt ==
    /\ wedo'.tilt_x \in 0 .. 255 /\ wedo'.tilt_y \in 0 .. 255
    /\ Calls("set_tilt") => TiltIs(Clamped(Last(api').args[1]), Clamped(Last(api').args[2]))
    /\ Calls("tilt_up") => TiltIs(0, 60)
    /\ Calls("tilt_down") => TiltIs(0, 30)
    /\ Calls("tilt_left") => TiltIs(60, 0)
    /\ Calls("tilt_right") => TiltIs(30, 0)
    /\ api' = api => TiltIs(wedo.tilt_x, wedo.tilt_y)

\* C17 (as claimed): after every setter call, tilt_x, tilt_y and
\* distance_value are in 0..255 and equal the last argument clamped to that
\* range: set_distance(v) leaves distance_value = clamp(v, 0, 255).
C17_SettersClamp ==
    [][ /\ C17_Tilt
        /\ wedo'.distance_value \in 0 .. 255
        /\ Calls("set_distance") => wedo'.distance_value = Clamped(Last(api').args[1])
      ]_vars

\* C17 (amended): tilt_x, tilt_y and distance_value are always in 0..255;
\* set_tilt(x, y) stores clamp(x), clamp(y), the tilt helpers store their
\* fixed pair, and set_distance(v) stores clamp(v) when a distance port is
\* configured and leaves distance_value as it was when none is; no other
\* step changes the three values.
C17_SettersClampAmended ==
    [][ /\ C17_Tilt
        /\ wedo'.distance_value \in 0 .. 255
        /\ Calls("set_distance")
           => wedo'.distance_value = IF HasDistancePort
                                     THEN Clamped(Last(api').args[1])
                                     ELSE wedo.distance_value
        /\ ~Calls("set_distance") => wedo'.distance_value = wedo.distance_value
      ]_vars

\* C17 witness: set_tilt(-1, 256) then set_distance(256) on a peripheral with
\* a distance port left 0, 255 and 255
C17_Witness ==
    /\ api = << [op |-> "set_tilt", args |-> << -1, 256 >>],
                [op |-> "set_distance", args |-> << 256 >>] >>
    /\ HasDistancePort
    /\ wedo.tilt_x = 0 /\ wedo.tilt_y = 255 /\ wedo.distance_value = 255

\* C18: set_distance on a peripheral with no distance port is a no-op: the
\* call returns and leaves distance_value and every other value of the
\* peripheral, the tasks and the frames sent as they were.
C18_SetDistanceWithoutSensor ==
    [][ ( Calls("set_distance") /\ ~HasDistancePort )
        => /\ wedo' = wedo
           /\ UNCHANGED << microbit, tasks, sent, calls, rpc_errors, session, conn >>
      ]_vars

\* C18 witness: set_distance(90) was called on a peripheral without a
\* distance port, and distance_value still has its initial value
C18_Witness ==
    /\ ~HasDistancePort
    /\ Len(api) >= 1
    /\ Last(api) = [op |-> "set_distance", args |-> << 90 >>]
    /\ wedo.distance_value = 0

\* The value bytes the sensor frame of a port carries, by device kind
C19_ValueBytes(port, kind) ==
    IF kind = "motor"
    THEN << IF port \in DOMAIN wedo.motor_power THEN wedo.motor_power[port] ELSE 100 >>
    ELSE IF kind = "tilt" THEN << wedo.tilt_x, wedo.tilt_y >>
    ELSE << Clamped(wedo.distance_value) >>

\* C19 (as claimed): in every state, for every configured port and its kind,
\* encode_sensor(port, kind) decodes to [0x05, port] followed by the value
\* bytes of the kind; after set_distance(v) the distance frame of the
\* distance port decodes to [0x05, port, clamp(v, 0, 255)].
C19_SensorFrame ==
    /\ \A i \in 1 .. Len(devices) :
          b64_to_bytes(encode_sensor(wedo, devices[i][1], devices[i][2]))
              = << 5, devices[i][1] >> \o C19_ValueBytes(devices[i][1], devices[i][2])
    /\ \A i \in 1 .. Len(devices) :
          ( /\ devices[i][2] = "distance"
            /\ Len(api) >= 1
            /\ Last(api).op = "set_distance" )
          => b64_to_bytes(encode_sensor(wedo, devices[i][1], "distance"))
                 = << 5, devices[i][1], Clamped(Last(api).args[1]) >>

\* C20: every encode_attach and encode_sensor call for a device kind outside
\* {motor, tilt, distance} has failed with an error and produced no frame
\* (no default device type stands in), while a call for one of the three
\* kinds has returned a frame.
C20_UnknownKindFails ==
    \A k \in 1 .. Len(encoded) :
        IF encoded[k].device \in {"motor", "tilt", "distance"}
        THEN ~encoded[k].raised /\ Len(encoded[k].frame) > 0
        ELSE encoded[k].raised /\ encoded[k].frame = << >>

\* C20 witness: both encoders have been called with the kind "mystery" and failed
C20_Witness ==
    /\ Len(encoded) = 2
    /\ encoded[1].op = "encode_attach" /\ encoded[1].device = "mystery" /\ encoded[1].raised
    /\ encoded[2].op = "encode_sensor" /\ encoded[2].device = "mystery" /\ encoded[2].raised

\* The accelerometer call made in the step
CallsAccelerometer == Len(api') = Len(api) + 1 /\ Last(api').op = "accelerometer"
InInt16(v) == -32768 <= v /\ v <= 32767
C21_Word(v) == << (v + 65536) % 256, ((v + 65536) \div 256) % 256 >>
C21_OutOfRange == \E i \in 1 .. 3 : ~InInt16(Last(api').args[i])

C21_OneAccelerometerFrame ==
    /\ ~Last(api').raised
    /\ Len(NewFrames) = 1
    /\ NewFrames[1].method = "characteristicDidChange"
    /\ NewFrames[1].serviceId = ACCEL_SERVICE
    /\ NewFrames[1].characteristicId = ACCEL_DATA_CHAR
    /\ b64_to_bytes(NewFrames[1].message)
          = C21_Word(Last(api').args[1]) \o C21_Word(Last(api').args[2])
            \o C21_Word(Last(api').args[3])

\* C21 (as claimed): accelerometer(x, y, z) with a component outside the
\* signed 16-bit range fails and sends nothing; with all components in range
\* it sends exactly one notification carrying x, y, z as 16-bit
\* two's-complement little-endian values.
C21_Accelerometer ==
    [][ CallsAccelerometer
        => IF C21_OutOfRange
           THEN Last(api').raised /\ sent' = sent
           ELSE C21_OneAccelerometerFrame
      ]_vars

\* C21 (amended): as claimed when a connection is registered and open; with
\* all components in range and no connection registered the call returns
\* and sends nothing.
C21_AccelerometerAmended ==
    [][ CallsAccelerometer
        => IF C21_OutOfRange
           THEN Last(api').raised /\ sent' = sent
           ELSE IF microbit.ws = None
           THEN ~Last(api').raised /\ sent' = sent
           ELSE conn[microbit.ws] = "open" => C21_OneAccelerometerFrame
      ]_vars

\* C21 witness: with a connection registered and open, accelerometer(-32768,
\* 32767, -1) was sent as one frame and accelerometer(32768, 0, 0) failed
C21_Witness ==
    /\ Len(api) = 2
    /\ api[1] = [op |-> "accelerometer", args |-> << -32768, 32767, -1 >>, raised |-> FALSE]
    /\ api[2] = [op |-> "accelerometer", args |-> << 32768, 0, 0 >>, raised |-> TRUE]
    /\ microbit.ws # None
    /\ conn[microbit.ws] = "open"
    /\ \E k \in 1 .. Len(sent) :
          /\ sent[k].serviceId = ACCEL_SERVICE
          /\ b64_to_bytes(sent[k].message) = << 0, 128, 255, 127, 255, 255 >>

\* The hub is done with request n, the latest one, on an open connection
LatestDone(n) ==
    /\ n = Len(reqs)
    /\ n >= 1
    /\ reqs[n].json
    /\ DeviceDone(n, Len(hubDevices))
    /\ conn[reqs[n].ws] = "open"

HasPair(r, svc, char) == r.serviceId = svc /\ r.characteristicId = char

\* C22 (as claimed): once a read request has been handled, if it asked for
\* notification start the addressed subscription is active on the peripheral
\* that owns the pair, as after startNotifications with the same parameters
\* (sensor flag, ports flag with the attach frames, RX flag); any other read
\* has been answered by each peripheral with exactly one ack and nothing else.
C22_ReadDelegates ==
    \A n \in 1 .. Len(reqs) :
        ( LatestDone(n) /\ reqs[n].method = "read" )
        => IF reqs[n].startNotifications
           THEN /\ HasPair(reqs[n], SENSOR_SERVICE, SENSOR_CHAR) => wedo.notifications_sensor
                /\ HasPair(reqs[n], PORT_SERVICE, PORT_CHAR) => wedo.notifications_ports
                /\ HasPair(reqs[n], SVC_ID, CHAR_RX) => microbit.notifications_rx
           ELSE \A di \in 1 .. Len(hubDevices) :
                   /\ Len(FramesBy(hubDevices[di], n)) = 1
                   /\ IsAck(FramesBy(hubDevices[di], n)[1], n)

KnownMethods == {"discover", "connect", "startNotifications", "stopNotifications",
                 "write", "read"}

\* C23: the step in which a peripheral's handler takes a request whose method
\* is none of discover, connect, startNotifications, stopNotifications, write,
\* read (the connection being open) sends that peripheral's ack with the
\* request id and nothing else, logs no error, and changes no peripheral
\* state other than the registered connection; no task is created or cancelled.
C23_UnknownMethodAcked ==
    [][ \A k \in 1 .. Len(NewEntered) :
          LET n == NewEntered[k].req
              r == reqs'[n]
          IN  ( r.method \notin KnownMethods /\ conn[r.ws] = "open" )
              => /\ Len(NewErrors) = 0
                 /\ Len(NewCalls) = 0
                 /\ Len(NewFrames) = 1
                 /\ IsAck(NewFrames[1], n)
                 /\ NewFrames[1].by.dev = NewEntered[k].dev
                 /\ NewFrames[1].ws = r.ws
                 /\ [wedo' EXCEPT !.ws = 0] = [wedo EXCEPT !.ws = 0]
                 /\ [microbit' EXCEPT !.ws = 0] = [microbit EXCEPT !.ws = 0]
                 /\ tasks' = tasks
      ]_vars

\* C23 witness: both peripherals have acked a request with an unrecognized method
C23_Witness ==
    \E n \in 1 .. Len(reqs) :
        /\ reqs[n].json
        /\ reqs[n].method = "getVersion"
        /\ DeviceDone(n, Len(hubDevices))
        /\ \A di \in 1 .. Len(hubDevices) :
              /\ Len(FramesBy(hubDevices[di], n)) = 1
              /\ IsAck(FramesBy(hubDevices[di], n)[1], n)

\* Request r runs a peripheral's start_notifications without a serviceId or
\* without a characteristicId
StartsWithoutId(r) ==
    /\ r.json
    /\ r.method = "startNotifications" \/ (r.method = "read" /\ r.startNotifications)
    /\ r.serviceId = Null \/ r.characteristicId = Null

\* C24: no step of the handling of a start request that lacks serviceId or
\* characteristicId changes a subscription flag or a loop handle of either
\* peripheral, sends an attach frame (every frame of the step is an ack
\* with the request id) or creates or cancels a push loop.
C24_MissingIdNoEffect ==
    [][ \A n \in 1 .. Len(reqs') :
          ( Handles(n) /\ StartsWithoutId(reqs'[n]) )
          => /\ [wedo' EXCEPT !.ws = 0] = [wedo EXCEPT !.ws = 0]
             /\ [microbit' EXCEPT !.ws = 0] = [microbit EXCEPT !.ws = 0]
             /\ tasks' = tasks
             /\ \A k \in 1 .. Len(NewFrames) : IsAck(NewFrames[k], n)
      ]_vars

\* C24 witness: both peripherals' start_notifications have run without a
\* characteristicId (the WeDo's on startNotifications, the micro:bit's on a
\* read with startNotifications), and no subscription is active
C24_Witness ==
    /\ Len(reqs) = 2
    /\ \E a, b \in 1 .. 2 :
          /\ reqs[a].method = "startNotifications" /\ StartsWithoutId(reqs[a])
          /\ reqs[a].serviceId = PORT_SERVICE
          /\ \E k \in 1 .. Len(rpc_errors) : rpc_errors[k] = [req |-> a, dev |-> "wedo"]
          /\ reqs[b].method = "read" /\ StartsWithoutId(reqs[b])
          /\ reqs[b].serviceId = SVC_ID
          /\ \E k \in 1 .. Len(rpc_errors) : rpc_errors[k] = [req |-> b, dev |-> "microbit"]
    /\ ~wedo.notifications_ports /\ ~wedo.notifications_sensor /\ ~microbit.notifications_rx
    /\ tasks = << >>

\* The display callback a decoded micro:bit payload selects, as the sequence
\* of hook invocations (empty: no callback)
C25_Row(args, i) == IF i <= Len(args) THEN args[i] ELSE 0

C25_Expected(payload) ==
    LET opcode == IF Len(payload) > 0 THEN payload[1] ELSE -1
        args == IF Len(payload) > 1 THEN SubSeq(payload, 2, Len(payload)) ELSE << >>
    IN  IF opcode = 128 /\ Len(args) >= 3
        THEN << [hook |-> "on_set_pixel",
                 args |-> << args[1], args[2], IF args[3] = 0 THEN 0 ELSE 1 >>] >>
        ELSE IF opcode = 129
        THEN << [hook |-> "on_display_text",
                 args |-> [i \in 1 .. Len(args) |-> IF args[i] < 128 THEN args[i] ELSE 65533]] >>
        ELSE IF opcode = 130
        THEN IF \A i \in 1 .. 5 : C25_Row(args, i) = 0
             THEN << [hook |-> "on_clear_display", args |-> << >>] >>
             ELSE << [hook |-> "on_display_matrix",
                      args |-> [i \in 1 .. 5 |-> C25_Row(args, i)]] >>
        ELSE << >>

\* C25: the step in which the micro:bit handler takes a write (the
\* connection being open) invokes exactly the display callbacks the leading
\* opcode selects -- at most one: set pixel for 0x80 with at least 3
\* following bytes, text for 0x81, for 0x82 clear display when all row bytes
\* are zero and otherwise the bitmap with exactly 5 rows, none for anything
\* else -- and then sends exactly one frame, the ack with the request id.
C25_DisplayWrite ==
    [][ \A k \in 1 .. Len(NewEntered) :
          LET n == NewEntered[k].req
              r == reqs'[n]
              payload == IF r.hasMessage /\ WritePayload(r).ok
                         THEN WritePayload(r).bytes ELSE << >>
          IN  ( NewEntered[k].dev = "microbit" /\ r.method = "write" /\ conn[r.ws] = "open" )
              => /\ Len(NewCalls) <= 1
                 /\ [i \in 1 .. Len(NewCalls) |->
                        [hook |-> NewCalls[i].hook, args |-> NewCalls[i].args]]
                      = C25_Expected(payload)
                 /\ \A i \in 1 .. Len(NewCalls) :
                       NewCalls[i].req = n /\ NewCalls[i].at = Len(sent)
                 /\ Len(NewFrames) = 1
                 /\ IsAck(NewFrames[1], n)
                 /\ NewFrames[1].by.dev = "microbit"
      ]_vars

\* C25 witness: an all-zero 0x82 payload cleared the display, and a 0x80
\* payload with two following bytes invoked nothing; both were acked
C25_Witness ==
    /\ Len(reqs) = 2
    /\ WritePayload(reqs[1]).bytes = << 130, 0, 0, 0, 0, 0 >>
    /\ WritePayload(reqs[2]).bytes = << 128, 1, 2 >>
    /\ \E k \in 1 .. Len(calls) : calls[k].hook = "on_clear_display" /\ calls[k].req = 1
    /\ \A k \in 1 .. Len(calls) : calls[k].req = 2 => calls[k].hook = "on_motor_power"
    /\ \A n \in 1 .. 2 : Len(FramesBy("microbit", n)) = 1 /\ IsAck(FramesBy("microbit", n)[1], n)

\* The ports the peripheral was configured with
ConfiguredPorts(devs) == { devs[i][1] : i \in 1 .. Len(devs) }

\* C26: the port-to-kind mapping never changes -- every step of an RPC, a
\* setter or a push loop leaves devices as it was, with at most one kind per
\* port -- and a motor write to a port that is not configured records
\* motor_power for that port without adding the port to the devices.
C26_PortKindsFixed ==
    [][ /\ devices' = devices
        /\ \A i, j \in 1 .. Len(devices') :
              devices'[i][1] = devices'[j][1] => i = j
        /\ \A k \in 1 .. Len(NewEntered) :
              LET r == reqs'[NewEntered[k].req]
                  data == WritePayload(r).bytes
              IN  ( /\ NewEntered[k].dev = "wedo"
                    /\ r.method = "write" /\ r.hasMessage /\ WritePayload(r).ok
                    /\ Len(data) >= 3
                    /\ data[1] \notin ConfiguredPorts(devices) )
                  => /\ data[1] \in DOMAIN wedo'.motor_power
                     /\ data[1] \notin ConfiguredPorts(devices')
      ]_vars

\* C26 witness: on a peripheral with configured ports, after a setter call
\* and a push-loop notification, a motor write to port 9 has been recorded
C26_Witness ==
    /\ Len(devices) > 0
    /\ 9 \notin ConfiguredPorts(devices)
    /\ 9 \in DOMAIN wedo.motor_power
    /\ Len(api) > 0
    /\ \E k \in 1 .. Len(sent) : sent[k].by.loop

\* C27: once the WeDo handler of the first ports-channel startNotifications
\* has returned on a connection that is still open, the attach frame of each
\* configured port decodes to [port, 0x01, role, type code, fixed trailer],
\* with role 0x00 for the first configured port and 0x01 for every later
\* one, and the type code of the port's kind.
C27_AttachLayout ==
    \A n \in 1 .. Len(reqs) :
        (C5_FirstPortsStart(n) /\ DeviceDone(n, 1) /\ conn[reqs[n].ws] = "open")
        => LET F == FramesBy("wedo", n)
           IN  /\ Len(F) = 1 + Len(devices)
               /\ \A i \in 1 .. Len(devices) :
                    b64_to_bytes(F[i + 1].message)
                    = << devices[i][1], 1, IF i = 1 THEN 0 ELSE 1,
                         C5_TypeCode(devices[i][2]), 0, 1, 1, 16, 0, 0, 0, 16 >>

\* The push loops of a peripheral, in the order they were spawned
LoopsOf(dev) == { t \in 1 .. Len(tasks) : tasks[t].dev = dev }

\* C28: whatever the interleaving of startNotifications, stopNotifications
\* and push-loop steps, a peripheral has at most one push loop that is able
\* to send, before and after every step, and a notification a push loop
\* sends comes from the peripheral's most recently spawned loop -- never
\* from a loop that a stop has cancelled.
C28_OneLoopAbleToSend ==
    [][ /\ \A dev \in {"wedo", "microbit"} :
              /\ Cardinality(LiveLoops(dev)) <= 1
              /\ Cardinality({ t \in 1 .. Len(tasks') :
                                 tasks'[t].dev = dev /\ tasks'[t].st = "running" }) <= 1
        /\ \A k \in 1 .. Len(NewFrames) :
              NewFrames[k].by.loop
              => \E t \in LiveLoops(NewFrames[k].by.dev) :
                    /\ tasks[t].req = NewFrames[k].by.req
                    /\ \A u \in LoopsOf(NewFrames[k].by.dev) : u <= t
      ]_vars

\* C28 witness: start, stop, start on the sensor channel; the loop of the
\* first start sent a notification and was cancelled, and the loop of the
\* second start has sent one too
C28_Witness ==
    /\ Len(reqs) = 3
    /\ IsSub(reqs[1], "startNotifications", SENSOR_SERVICE, SENSOR_CHAR)
    /\ IsSub(reqs[2], "stopNotifications", SENSOR_SERVICE, SENSOR_CHAR)
    /\ IsSub(reqs[3], "startNotifications", SENSOR_SERVICE, SENSOR_CHAR)
    /\ Len(tasks) = 2
    /\ tasks[1].st \in {"cancelling", "cancelled"}
    /\ tasks[2].st = "running"
    /\ \E k \in 1 .. Len(sent) : sent[k].by = By("wedo", 1, TRUE)
    /\ \E k \in 1 .. Len(sent) : sent[k].by = By("wedo", 3, TRUE)

\* C29: once the WeDo handler's ack of a stopNotifications for the sensor
\* channel is on the transport, no push loop spawned by an earlier request
\* sends a notification: no frame of such a loop follows the ack in the
\* order of sending.
C29_NoNotificationAfterStopAck ==
    \A a, b \in 1 .. Len(sent) :
        ( /\ a < b
          /\ sent[a].by.dev = "wedo" /\ ~sent[a].by.loop
          /\ IsAck(sent[a], sent[a].by.req)
          /\ IsSub(reqs[sent[a].by.req], "stopNotifications", SENSOR_SERVICE, SENSOR_CHAR)
          /\ sent[b].by.dev = "wedo" /\ sent[b].by.loop )
        => sent[b].by.req > sent[a].by.req

\* C30: a micro:bit heartbeat loop whose send met a closed transport ends
\* silently: no micro:bit push-loop task ends with an exception.
C30_HeartbeatEndsSilently ==
    \A t \in 1 .. Len(tasks) : tasks[t].dev = "microbit" => tasks[t].st # "failed"

\* The frame [0x05, port, current value bytes] of a port of kind device
C31_Current(w, port, device) ==
    IF device = "distance" THEN << 5, port, w.distance_value >>
    ELSE IF device = "tilt" THEN << 5, port, w.tilt_x, w.tilt_y >>
    ELSE << 5, port, IF port \in DOMAIN w.motor_power THEN w.motor_power[port] ELSE 100 >>

\* C31: every notification the WeDo push loop sends carries the sensor
\* state stored at the time of sending: its payload is the frame
\* [0x05, port, current value bytes] of one of the configured ports.
C31_LoopSendsStoredValues ==
    [][ \A k \in 1 .. Len(NewFrames) :
          ( NewFrames[k].by.loop /\ NewFrames[k].by.dev = "wedo" )
          => \E i \in 1 .. Len(devices) :
                b64_to_bytes(NewFrames[k].message)
                = C31_Current(wedo, devices[i][1], devices[i][2])
      ]_vars

\* The heartbeats that micro:bit push loops spawned before request n sent
\* after a handler of request n had already sent a frame
C32_HeartbeatsAfter(n) ==
    { k \in 1 .. Len(sent) :
        /\ sent[k].by.loop /\ sent[k].by.dev = "microbit" /\ sent[k].by.req < n
        /\ \E a \in 1 .. (k - 1) : ~sent[a].by.loop /\ sent[a].by.req = n }

\* C32: once a stopNotifications for the micro:bit channel is being
\* handled, the heartbeat loop of the subscription does not complete
\* another full sleep-and-send round: it sends at most the heartbeat whose
\* sleep was already under way, never a second one.
C32_NoFullRoundAfterStop ==
    \A n \in 1 .. Len(reqs) :
        IsSub(reqs[n], "stopNotifications", SVC_ID, CHAR_RX)
        => Cardinality(C32_HeartbeatsAfter(n)) <= 1

\* The frames that handlers (not push loops) sent on connection c
C33_HandlerFrames(c) == SelectSeq(sent', LAMBDA f : ~f.by.loop /\ f.ws = c)

\* C33: within a session messages are handled in arrival order.  A step
\* that starts the handling of a frame finds no handler of an earlier frame
\* of that connection suspended; handle_rpc calls are made in request
\* order, the peripherals of one request in registration order; and the
\* frames the handlers send on a connection (acks and the notifications
\* sent with them) are in request order.
C33_ArrivalOrder ==
    [][ /\ Delivers => session[Last(reqs').ws].st = "idle"
        /\ \A a, b \in 1 .. Len(entered') :
              a < b => \/ entered'[a].req < entered'[b].req
                       \/ /\ entered'[a].req = entered'[b].req
                          /\ entered'[a].dev = hubDevices[1]
                          /\ entered'[b].dev = hubDevices[2]
        /\ \A c \in Conns :
              \A a, b \in 1 .. Len(C33_HandlerFrames(c)) :
                a < b => C33_HandlerFrames(c)[a].by.req <= C33_HandlerFrames(c)[b].by.req
      ]_vars

\* C33 witness: one session handled a startNotifications on the ports
\* channel, with its attach frames, and then a discover, both peripherals
\* answering each
C33_Witness ==
    /\ Len(reqs) = 2
    /\ Len(devices) > 0
    /\ reqs[1].ws = reqs[2].ws
    /\ IsSub(reqs[1], "startNotifications", PORT_SERVICE, PORT_CHAR)
    /\ reqs[2].json /\ reqs[2].method = "discover"
    /\ DeviceDone(2, Len(hubDevices))
    /\ Len(FramesBy("wedo", 1)) = 1 + Len(devices)
    /\ Len(FramesBy("microbit", 1)) = 1
    /\ Len(FramesBy("wedo", 2)) = 2
    /\ Len(FramesBy("microbit", 2)) = 2

\* Request n is the latest frame, the first startNotifications for the pair
\* on its connection, the WeDo handler has returned from it and the
\* connection is open
C34_FreshStart(n, svc, char) ==
    /\ n = Len(reqs)
    /\ IsSub(reqs[n], "startNotifications", svc, char)
    /\ \A k \in 1 .. (n - 1) :
          reqs[k].ws = reqs[n].ws => ~IsSub(reqs[k], "startNotifications", svc, char)
    /\ DeviceDone(n, 1)
    /\ conn[reqs[n].ws] = "open"

\* C34: every session starts afresh.  The first startNotifications of a
\* connection on the ports channel is answered with the ack and one attach
\* frame per configured port, and the first one on the sensor channel
\* leaves a running push loop that sends on that connection -- whatever
\* earlier sessions subscribed to.
C34_SessionStartsAfresh ==
    \A n \in 1 .. Len(reqs) :
        /\ C34_FreshStart(n, PORT_SERVICE, PORT_CHAR)
           => Len(FramesBy("wedo", n)) = 1 + Len(devices)
        /\ C34_FreshStart(n, SENSOR_SERVICE, SENSOR_CHAR)
           => LiveLoops("wedo") # {} /\ wedo.ws = reqs[n].ws

\* C35: every notification a push loop sends goes out on the connection
\* whose request started the loop's subscription.
C35_LoopKeepsItsTransport ==
    \A k \in 1 .. Len(sent) :
        sent[k].by.loop => sent[k].ws = reqs[sent[k].by.req].ws

=============================================================================
